---- MODULE Spec2Model ----
(***************************************************************************)
(* The event pipeline of twisted.python.logger: the fan-out LogPublisher   *)
(* (_observer.py), the RingBufferLogObserver (_buffer.py) and the          *)
(* LogBeginner start-up coordinator (_global.py), with the temporary       *)
(* critical-only text sink it installs (_filter.py, _file.py).             *)
(*                                                                         *)
(* Python runs one thread: the model keeps an explicit call stack.  A      *)
(* frame is one activation of LogPublisher.__call__ ("pass") or of         *)
(* LogBeginner.beginLoggingTo ("begin").  Observers are user code: when    *)
(* one is invoked it may return, raise, change the registry, publish or    *)
(* call beginLoggingTo before it returns; what each observer does is       *)
(* fixed when it is created (beh).                                         *)
(***************************************************************************)
EXTENDS Integers, Sequences, FiniteSets, TLC

VARIABLES
    observers,   \* LogPublisher._observers of the target publisher
    buffer,      \* LogBeginner._initialBuffer._buffer (a deque)
    tempObs,     \* LogBeginner._temporaryObserver: "T" or "None"
    prevBegin,   \* LogBeginner._previousBegin: a call site, 0 while unset
    errStream,   \* ids of the events written to the errorStream, in order
    stack,       \* the call stack, innermost frame last
    nextId,      \* identity of the next event object created
    escaped,     \* an exception reached the outermost caller
    beh,         \* what each user observer's code does when it is called
    fired,       \* the user observers whose one-time action has happened
    received,    \* history: per user observer, the deliveries it was given
    hist,        \* history: counters and marks the properties refer to
    levels,      \* LogLevelFilterPredicate._logLevelsByNamespace
    out,         \* what the last call of a library function gave its caller
    event,       \* the event dict handed to formatEvent and flattenEvent
    calls,       \* how often that call invoked the event's callable field
    ring,        \* a RingBufferLogObserver: its maxlen and its deque
    file         \* a LoggingFile, the events it emitted and the text given

vars == <<observers, buffer, tempObs, prevBegin, errStream, stack, nextId,
          escaped, beh, fired, received, hist, levels, out, event, calls,
          ring, file>>

\* The state of the filter objects and of the event being formatted, which
\* the publisher and the beginner leave alone.
lib == <<levels, out, event, calls, ring, file>>

\* The state of the publisher and the beginner, which the filter operations
\* leave alone.
pipeline == <<observers, buffer, tempObs, prevBegin, errStream, stack, nextId,
              escaped, beh, fired, received, hist>>

-----------------------------------------------------------------------------
\* Bounds of the exploration: the number of calls made from outside any
\* observer, and the capacity of the initial buffer.  The source sets
\* _DEFAULT_BUFFER_MAXIMUM = 64*1024; the deque only ever compares its length
\* with maxlen, so the model takes a small capacity to make eviction
\* reachable.
MaxOps == 4
BufferMaximum == 2

\* The longest predicate chain given to a FilteringLogObserver.
MaxChain == 3

\* The largest number of replacement fields in a log_format.
MaxItems == 2

\* formatEvent and flattenEvent are applied to an event while its callable
\* field has been called fewer than MaxCalls times.
MaxCalls == 2

\* The most observers registered with the publisher that traces.
MaxRegistered == 2

\* The most observers a LogPublisher on its own is constructed with.
MaxInitial == 2

\* The number of events pushed to a RingBufferLogObserver on its own.
MaxPushes == 5

Users == {"A", "B", "C"}
Temp == "T"

\* The event shapes published.  Bare is a dict without any log_ key, as the
\* tests of the publisher and observers calling it back use; Shapes are the
\* events with a level published to a LogBeginner's publisher: what
\* Logger.info and Logger.critical build, and a critical dict built by hand
\* without a log_time.
Bare == [level |-> "none", ns |-> FALSE, time |-> FALSE, fmt |-> FALSE]
Shapes ==
    { [level |-> "info",     ns |-> TRUE,  time |-> TRUE,  fmt |-> TRUE],
      [level |-> "critical", ns |-> TRUE,  time |-> TRUE,  fmt |-> TRUE],
      [level |-> "critical", ns |-> TRUE,  time |-> FALSE, fmt |-> TRUE] }

Range(s) == { s[i] : i \in 1..Len(s) }

\* What an observer's code does.  "raise" raises on every call; the other
\* kinds act on the observer's first call only: raise ("raiseOnce"),
\* addObserver(arg) / removeObserver(arg) on the target publisher ("add",
\* "remove"), publish a new event to it ("publish"), or call
\* beginLoggingTo(arg) ("begin").
Does(kind, arg) == [kind |-> kind, arg |-> arg]
Plain == { Does("ok", <<>>), Does("raise", <<>>), Does("raiseOnce", <<>>) }

-----------------------------------------------------------------------------
\* Events.

MkEvent(id, kind, shape, about) ==
    [id |-> id, kind |-> kind, level |-> shape.level, ns |-> shape.ns,
     time |-> shape.time, fmt |-> shape.fmt, about |-> about]

\* Logger.emit: the event carries log_level, log_namespace, log_format and
\* log_time and is handed to the logger's observer.
LoggerEmit(id, kind, level, about) ==
    MkEvent(id, kind,
            [level |-> level, ns |-> TRUE, time |-> TRUE, fmt |-> TRUE],
            about)

\* LogLevel._priorityForLevel
PriorityForLevel(level) ==
    CASE level = "debug" -> 0
      [] level = "info" -> 1
      [] level = "warn" -> 2
      [] level = "error" -> 3
      [] level = "critical" -> 4

-----------------------------------------------------------------------------
\* RingBufferLogObserver.

\* A buffer that refuses new events once full, instead of dropping the oldest.
RingAppendKeepOldest(buf, size, ev) ==
    IF Len(buf) >= size THEN buf ELSE Append(buf, ev)

\* deque(maxlen=None) has no bound.
NoMaxlen == -1

\* __call__: deque.append with maxlen drops the oldest entry when full.
RingAppend(buf, size, ev) ==
    IF size = NoMaxlen THEN Append(buf, ev)
    ELSE IF size = 0 THEN buf
    ELSE IF Len(buf) >= size THEN Append(Tail(buf), ev)
    ELSE Append(buf, ev)

\* A replay that walks the deque from its newest entry.
ReplayNewestFirst(buf, i) == buf[Len(buf) + 1 - i]

\* replayTo: the i-th event the iteration over the deque yields.
ReplayEvent(buf, i) == buf[i]

-----------------------------------------------------------------------------
\* The temporary observer LogPublisher(_initialBuffer,
\* FilteringLogObserver(fileObserver, [LogLevelFilterPredicate(critical)])).

\* LogLevel.iterconstants()
Levels == {"debug", "info", "warn", "error", "critical"}

\* A namespace is the sequence of its dot-separated segments; None and the
\* empty string, which the code treats alike (not namespace), are <<>>.
Unnamed == <<>>

\* clearLogLevels: the map holding the default level only, under the key None.
ClearedLevels(defaultLogLevel) == (Unnamed :> defaultLogLevel)

\* A resolution that ignores the configured prefixes.
ExactOrDefault(map, ns) ==
    IF ns \in DOMAIN map THEN map[ns] ELSE map[Unnamed]

\* The while loop of logLevelForNamespace: prefixes of index segments, the
\* longest first.
RECURSIVE PrefixWalk(_, _, _)
PrefixWalk(map, segments, index) ==
    IF index > 0
    THEN IF SubSeq(segments, 1, index) \in DOMAIN map
         THEN map[SubSeq(segments, 1, index)]
         ELSE PrefixWalk(map, segments, index - 1)
    ELSE map[Unnamed]

\* LogLevelFilterPredicate.logLevelForNamespace
LogLevelForNamespace(map, ns) ==
    IF ns = Unnamed THEN map[Unnamed]
    ELSE IF ns \in DOMAIN map THEN map[ns]
    ELSE PrefixWalk(map, ns, Len(ns) - 1)

\* A setter that stores the level before it validates it.
StoreThenValidate(map, ns, level) ==
    [raised |-> level \notin Levels, map |-> (ns :> level) @@ map]

\* LogLevelFilterPredicate.setLogLevelForNamespace: whether it raised
\* InvalidLogLevelError, and the map it leaves.
SetLogLevel(map, ns, level) ==
    IF level \notin Levels THEN [raised |-> TRUE, map |-> map]
    ELSE [raised |-> FALSE, map |-> (ns :> level) @@ map]

\* A predicate that also rejects events at the threshold.
RejectAtThreshold(map, level, named, ns) ==
    IF \/ level = "none"
       \/ ~named
       \/ PriorityForLevel(level)
             <= PriorityForLevel(LogLevelForNamespace(map,
                                    IF named THEN ns ELSE Unnamed))
    THEN "no"
    ELSE "maybe"

\* A clear that keeps the default entry the map holds.
ClearKeepsDefaultEntry(map, defaultLogLevel) == (Unnamed :> map[Unnamed])

\* clearLogLevels: the map is emptied and the None entry set to
\* self.defaultLogLevel.
AfterClear(map, defaultLogLevel) == ClearedLevels(defaultLogLevel)

\* LogLevelFilterPredicate.__call__ on an event with this log_level ("none"
\* when it has none) and this log_namespace (named: it has one).
LevelFilter(map, level, named, ns) ==
    IF \/ level = "none"
       \/ ~named
       \/ PriorityForLevel(level)
             < PriorityForLevel(LogLevelForNamespace(map,
                                   IF named THEN ns ELSE Unnamed))
    THEN "no"
    ELSE "maybe"

\* LogLevelFilterPredicate.__call__ with only the default level configured.
LevelPredicate(ev, defaultLogLevel) ==
    LevelFilter(ClearedLevels(defaultLogLevel), ev.level, ev.ns, <<"ns">>)

\* A filter that drops the event when no predicate decides.
RECURSIVE DefaultDeny(_, _)
DefaultDeny(results, asked) ==
    IF results = <<>> THEN [verdict |-> "drop", asked |-> asked]
    ELSE IF Head(results) = "yes"
         THEN [verdict |-> "forward", asked |-> asked + 1]
    ELSE IF Head(results) = "no"
         THEN [verdict |-> "drop", asked |-> asked + 1]
    ELSE IF Head(results) = "maybe"
         THEN DefaultDeny(Tail(results), asked + 1)
    ELSE [verdict |-> "TypeError", asked |-> asked + 1]

\* A filter that takes any unknown result for maybe.
RECURSIVE UnknownIsMaybe(_, _)
UnknownIsMaybe(results, asked) ==
    IF results = <<>> THEN [verdict |-> "forward", asked |-> asked]
    ELSE IF Head(results) = "yes"
         THEN [verdict |-> "forward", asked |-> asked + 1]
    ELSE IF Head(results) = "no"
         THEN [verdict |-> "drop", asked |-> asked + 1]
    ELSE UnknownIsMaybe(Tail(results), asked + 1)

\* The loop of FilteringLogObserver.shouldLogEvent over the results its
\* predicates would give, after asked of them were called: what it does
\* (return True: forward, return False: drop, raise TypeError) and how many
\* predicates were called.
RECURSIVE FilterRun(_, _)
FilterRun(results, asked) ==
    IF results = <<>> THEN [verdict |-> "forward", asked |-> asked]
    ELSE IF Head(results) = "yes"
         THEN [verdict |-> "forward", asked |-> asked + 1]
    ELSE IF Head(results) = "no"
         THEN [verdict |-> "drop", asked |-> asked + 1]
    ELSE IF Head(results) = "maybe"
         THEN FilterRun(Tail(results), asked + 1)
    ELSE [verdict |-> "TypeError", asked |-> asked + 1]

\* FilteringLogObserver.shouldLogEvent returning True.
ShouldLogEvent(results) == FilterRun(results, 0).verdict = "forward"

\* FileLogObserver.__call__ as LogBeginner.__init__ builds it: the second
\* positional argument, a function, lands in timeFormat.  No text when
\* formatEvent gives none; otherwise formatTime calls strftime(timeFormat)
\* when the event has a log_time, which raises TypeError for a function.
FileLogObserverCall(ev) ==
    IF ~ev.fmt THEN "nothing"
    ELSE IF ev.time THEN "raise"
    ELSE "write"

\* What the filtered file observer does with one event.
TempOutcome(ev) ==
    IF ShouldLogEvent(<<LevelPredicate(ev, "critical")>>)
    THEN FileLogObserverCall(ev)
    ELSE "nothing"

-----------------------------------------------------------------------------
\* Formatting and flattening (_format.py).
\*
\* An event under formatting is described by: kind, what log_format is
\* ("none": the key is absent, "text", "bytes", "other": not a string);
\* items, what Formatter.parse yields for it; thunk, what the callable under
\* the key f does ("ok": returns an object, "count": returns the number of
\* its earlier calls, "raise"); n, how often it was called; reprOk, whether
\* repr(event) works; flat, the log_flattened dict when has is TRUE.  The key
\* x holds a plain object.

\* Formatter.parse yields, per replacement field, the literal text before it
\* and the field's name, format spec and conversion; literal text after the
\* last field comes as a last item whose other three parts are None.
NoField == "None"
Item(lit, name, spec, conv) ==
    [lit |-> lit, name |-> name, spec |-> spec, conv |-> conv]

\* fieldName.endswith("()")
CallMarked(name) == name = "f()"

\* The object a field name resolves to: event["x"], or what event["f"]()
\* returns.
\* A callable field returns the same object at each call ("ok"), or like
\* next(counter) of test_formatFlatEvent the number of calls made to it
\* before ("count"): ev.n calls before this operation and n within it.
ValueOf(name, ev, n) ==
    IF CallMarked(name)
    THEN <<"W", IF ev.thunk = "count" THEN ev.n + n ELSE 0>>
    ELSE <<"X", 0>>

\* Pieces of text: literal text, or an object shown by str ("s"), by repr
\* ("r") or by its own __format__ (""), under a format spec.
Lit(text) == [t |-> "lit", val |-> text, how |-> "", spec |-> ""]
Shown(val, how, spec) ==
    [t |-> "val", val |-> val,
     how |-> IF how = "" /\ spec = "" THEN "s" ELSE how, spec |-> spec]

\* flatKey: "{fieldName}!{conversion}:{formatSpec}", None given as "".
FlatKey(fieldName, formatSpec, conversion) ==
    <<fieldName, conversion, formatSpec>>

\* formatWithCall: Formatter.vformat over a CallMapping.  Each field is looked
\* up (and called when call-marked), converted and formatted with its spec.
RECURSIVE VFormat(_, _, _, _)
VFormat(items, ev, text, n) ==
    IF items = <<>> THEN [ok |-> TRUE, text |-> text, calls |-> n]
    ELSE LET it == Head(items)
             t1 == IF it.lit = "" THEN text ELSE Append(text, Lit(it.lit))
         IN IF it.name = NoField THEN VFormat(Tail(items), ev, t1, n)
            ELSE IF CallMarked(it.name) /\ ev.thunk = "raise"
                 THEN [ok |-> FALSE, text |-> t1, calls |-> n + 1]
            ELSE VFormat(Tail(items), ev,
                         Append(t1, Shown(ValueOf(it.name, ev, n), it.conv, it.spec)),
                         IF CallMarked(it.name) THEN n + 1 ELSE n)

\* flatFormat: literal text, then unicode() of the value stored under the
\* item's key; a key that is not stored is a KeyError.
RECURSIVE FlatFormat(_, _, _)
FlatFormat(items, fields, text) ==
    IF items = <<>> THEN [ok |-> TRUE, text |-> text, calls |-> 0]
    ELSE LET it == Head(items)
             t1 == IF it.lit = "" THEN text ELSE Append(text, Lit(it.lit))
             key == FlatKey(it.name, it.spec, it.conv)
         IN IF key \notin DOMAIN fields
            THEN [ok |-> FALSE, text |-> t1, calls |-> 0]
            ELSE FlatFormat(Tail(items), fields,
                            Append(t1, Shown(fields[key].val,
                                             fields[key].how, "")))

\* A diagnostic without its second try/except.
NoSecondTry(ev) ==
    IF ev.reprOk THEN [raised |-> FALSE, marker |-> "unable"]
    ELSE [raised |-> TRUE, marker |-> "none"]

\* formatUnformattableEvent: "Unable to format event {event!r}: {error}", or
\* when that raises the "MESSAGE LOST" text built with safe_repr.
FormatUnformattableEvent(ev) ==
    IF ev.reprOk THEN [raised |-> FALSE, marker |-> "unable"]
    ELSE [raised |-> FALSE, marker |-> "lost"]

\* A formatEvent that resolves the fields of a flattened event again.
FormatLive(ev) ==
    LET r == IF ev.kind = "none"
             THEN [ok |-> TRUE, text |-> <<>>, calls |-> 0]
             ELSE IF ev.kind \in {"text", "bytes"}
                  THEN VFormat(ev.items, ev, <<>>, 0)
             ELSE [ok |-> FALSE, text |-> <<>>, calls |-> 0]
    IN IF r.ok
       THEN [raised |-> FALSE, marker |-> "text", text |-> r.text,
             calls |-> r.calls]
       ELSE [raised |-> FALSE, marker |-> "unable", text |-> <<>>,
             calls |-> r.calls]

\* formatEvent
FormatEvent(ev) ==
    LET r == IF ev.flat.has THEN FlatFormat(ev.items, ev.flat.fields, <<>>)
             ELSE IF ev.kind = "none"
                  THEN [ok |-> TRUE, text |-> <<>>, calls |-> 0]
             ELSE IF ev.kind \in {"text", "bytes"}
                  THEN VFormat(ev.items, ev, <<>>, 0)
             ELSE [ok |-> FALSE, text |-> <<>>, calls |-> 0]
    IN IF r.ok
       THEN [raised |-> FALSE, marker |-> "text", text |-> r.text,
             calls |-> r.calls]
       ELSE [raised |-> FormatUnformattableEvent(ev).raised,
             marker |-> FormatUnformattableEvent(ev).marker,
             text |-> <<>>, calls |-> r.calls]

\* An observer behind a filter whose text is computed before the filter
\* decides.
FormatEagerly(ev, verdict) == FormatEvent(ev)

\* FilteringLogObserver.__call__ around an observer that formats what it is
\* given: formatEvent runs when shouldLogEvent returned True, and not at all
\* when the event is dropped or shouldLogEvent raised.
FormatIfForwarded(ev, verdict) ==
    IF verdict = "forward" THEN FormatEvent(ev)
    ELSE [raised |-> FALSE, marker |-> "none", text |-> <<>>, calls |-> 0]

\* A flattening that resolves every reference anew.
NeverSeen(key, fields) == FALSE

\* if key in fields: continue
AlreadySeen(key, fields) == key \in DOMAIN fields

\* The loop of flattenEvent.  A last item without field raises
\* AttributeError (None has no endswith); a callable that raises ends the
\* call.  The value stored is the object itself, or its str or repr when the
\* field has that conversion; the format spec is not applied.
RECURSIVE FlattenLoop(_, _, _, _)
FlattenLoop(items, ev, fields, n) ==
    IF items = <<>> THEN [raised |-> FALSE, fields |-> fields, calls |-> n]
    ELSE LET it == Head(items)
             key == FlatKey(it.name, it.spec, it.conv)
         IN IF AlreadySeen(key, fields)
            THEN FlattenLoop(Tail(items), ev, fields, n)
            ELSE IF it.name = NoField
                 THEN [raised |-> TRUE, fields |-> fields, calls |-> n]
            ELSE IF CallMarked(it.name) /\ ev.thunk = "raise"
                 THEN [raised |-> TRUE, fields |-> fields, calls |-> n + 1]
            ELSE FlattenLoop(Tail(items), ev,
                     (key :> [val |-> ValueOf(it.name, ev, n), how |-> it.conv])
                         @@ fields,
                     IF CallMarked(it.name) THEN n + 1 ELSE n)

\* The event after its callable field was called k more times.
Called(ev, k) ==
    [ev EXCEPT !.n = IF ev.thunk = "count" THEN @ + k ELSE @]

\* A flattenEvent that stores the fields in the event as it resolves them.
FlattenStoringAsItGoes(ev) ==
    IF ev.kind \notin {"text", "bytes"}
    THEN [raised |-> TRUE, calls |-> 0,
          event |-> [ev EXCEPT !.flat = [has |-> TRUE, fields |-> <<>>]]]
    ELSE LET r == FlattenLoop(ev.items, ev, <<>>, 0)
         IN [raised |-> r.raised, calls |-> r.calls,
             event |-> [Called(ev, r.calls) EXCEPT
                           !.flat = [has |-> TRUE, fields |-> r.fields]]]

\* flattenEvent: the event it leaves, whether it raised, and the calls made.
FlattenEvent(ev) ==
    IF ev.kind \notin {"text", "bytes"}
    THEN [raised |-> TRUE, event |-> ev, calls |-> 0]
    ELSE LET r == FlattenLoop(ev.items, ev, <<>>, 0)
         IN [raised |-> r.raised, calls |-> r.calls,
             event |-> IF r.raised THEN Called(ev, r.calls)
                       ELSE [Called(ev, r.calls) EXCEPT
                                !.flat = [has |-> TRUE, fields |-> r.fields]]]

-----------------------------------------------------------------------------
\* Tracing (log_trace) through publishers and filtering observers.

\* Observers as a tree: a plain observer, a FilteringLogObserver around one
\* observer whose predicates give one verdict, or a LogPublisher with its
\* registry.
Observer(id) == [t |-> "obs", id |-> id, verdict |-> "-", kids |-> <<>>]
Filtering(id, verdict, inner) ==
    [t |-> "filter", id |-> id, verdict |-> verdict, kids |-> <<inner>>]
Publisher(id, kids) ==
    [t |-> "pub", id |-> id, verdict |-> "-", kids |-> kids]

\* The delivery of one event so far: traced says whether the event has
\* log_trace, trace is that list, seen is history: for every observer invoked,
\* who invoked it and the trace it found.
Invoked(st, from, id) ==
    [st EXCEPT !.seen = Append(@, [id |-> id, from |-> from,
                                   trace |-> st.trace])]

\* A stage that appends its pair whether or not the event has log_trace.
TraceAlways(st, stage, target) ==
    [st EXCEPT !.trace = Append(@, <<stage, target>>)]

\* if "log_trace" in event: event["log_trace"].append((self, observer))
Trace(st, stage, target) ==
    IF st.traced THEN [st EXCEPT !.trace = Append(@, <<stage, target>>)]
    ELSE st

RECURSIVE Deliver(_, _, _)
RECURSIVE DeliverAll(_, _, _)

\* A publisher that invokes the observer and records the pair afterwards.
InvokeThenTrace(self, observer, st) ==
    Trace(Deliver(observer, self, st), self, observer.id)

\* One round of the loop of LogPublisher.__call__: trace(observer), then
\* observer(event).
TraceThenInvoke(self, observer, st) ==
    Deliver(observer, self, Trace(st, self, observer.id))

\* A filtering observer that records its pair before it asks its predicates.
ForwardTracedAnyway(self, verdict, inner, st) ==
    IF verdict = "forward"
    THEN Deliver(inner, self, Trace(st, self, inner.id))
    ELSE Trace(st, self, inner.id)

\* FilteringLogObserver.__call__: when shouldLogEvent allows it, append
\* (self, self.observer) and call self.observer; otherwise (dropped, or
\* TypeError raised to the caller) nothing.
FilterForward(self, verdict, inner, st) ==
    IF verdict = "forward"
    THEN Deliver(inner, self, Trace(st, self, inner.id))
    ELSE st

\* LogPublisher.__call__: the loop over _observers.
DeliverAll(self, kids, st) ==
    IF kids = <<>> THEN st
    ELSE DeliverAll(self, Tail(kids), TraceThenInvoke(self, Head(kids), st))

\* observer(event), called by from.
Deliver(node, from, st) ==
    LET st1 == Invoked(st, from, node.id)
    IN IF node.t = "obs" THEN st1
       ELSE IF node.t = "filter"
            THEN FilterForward(node.id, node.verdict, node.kids[1], st1)
       ELSE DeliverAll(node.id, node.kids, st1)

-----------------------------------------------------------------------------
\* Saving and loading events (_json.py).

\* objectSaveHook: what an object JSON cannot represent is saved as.
Placeholder == "unpersistable"

\* dumps(event, default=..., skipkeys=True): the document written for an
\* event.  Text stays text and bytes are written as text; the callable field
\* is written as the placeholder; log_flattened is written when present.
Dumps(ev) ==
    [kind |-> IF ev.kind = "bytes" THEN "text" ELSE ev.kind,
     items |-> ev.items, thunk |-> Placeholder, flat |-> ev.flat]

\* eventFromJSON: loads(eventText, object_hook=objectLoadHook), the event
\* rebuilt from a document.
EventFromJSON(doc) ==
    [kind |-> doc.kind, items |-> doc.items, thunk |-> doc.thunk,
     reprOk |-> TRUE, n |-> 0, flat |-> doc.flat]

\* eventAsJSON: flattenEvent(event), then dumps(event); a raise of
\* flattenEvent is a raise of eventAsJSON.
EventAsJSON(ev) ==
    LET f == FlattenEvent(ev)
    IN [raised |-> f.raised, event |-> f.event, calls |-> f.calls,
        doc |-> Dumps(f.event)]

-----------------------------------------------------------------------------
\* LogPublisher registry.

\* A registry that puts a new observer in front of the others.
AddObsInFront(list, o) == IF o \in Range(list) THEN list ELSE <<o>> \o list

\* addObserver: append unless already present.
AddObs(list, o) == IF o \in Range(list) THEN list ELSE Append(list, o)

\* callable(observer): every observer of the model is callable but this one.
NotCallable == "NotCallable"
Callable(o) == o # NotCallable

\* An addObserver that appends first and checks afterwards.
AppendThenCheck(list, o) ==
    [raised |-> ~Callable(o), list |-> AddObs(list, o)]

\* addObserver as its caller sees it: TypeError for a non-callable before
\* anything is stored, otherwise the append.
AddObserverCall(list, o) ==
    IF ~Callable(o) THEN [raised |-> TRUE, list |-> list]
    ELSE [raised |-> FALSE, list |-> AddObs(list, o)]

\* removeObserver: list.remove drops the first occurrence, ValueError ignored.
RECURSIVE RemoveObs(_, _)
RemoveObs(list, o) ==
    IF list = <<>> THEN <<>>
    ELSE IF Head(list) = o THEN Tail(list)
    ELSE <<Head(list)>> \o RemoveObs(Tail(list), o)

\* A beginLoggingTo that attaches nothing.
AddNone(list, os) == list

\* The addObserver loop of beginLoggingTo.
RECURSIVE AddAll(_, _)
AddAll(list, os) ==
    IF os = <<>> THEN list ELSE AddAll(AddObs(list, Head(os)), Tail(os))

\* The position of the first entry of os that is not callable, 0 if none.
FirstNotCallable(os) ==
    IF \A i \in 1..Len(os) : Callable(os[i]) THEN 0
    ELSE CHOOSE i \in 1..Len(os) :
            /\ ~Callable(os[i])
            /\ \A j \in 1..(i - 1) : Callable(os[j])

\* A loop that passes over the entries that are not callable.
AddAllSkipping(list, os) ==
    [raised |-> FALSE, list |-> AddAll(list, SelectSeq(os, Callable))]

\* The addObserver loop of beginLoggingTo as its caller sees it: the
\* TypeError of addObserver ends it, the observers before the entry that is
\* not callable having been added.
AddAllCall(list, os) ==
    IF FirstNotCallable(os) = 0
    THEN [raised |-> FALSE, list |-> AddAll(list, os)]
    ELSE [raised |-> TRUE,
          list |-> AddAll(list, SubSeq(os, 1, FirstNotCallable(os) - 1))]

\* A publisher that drops an observer from its registry once it has failed.
DisableObserver(list, bad) == SelectSeq(list, LAMBDA x : x # bad)

\* The report loop of __call__ (lines 111-117) reads self._observers to build
\* the error publisher and does not assign it: the registry it leaves.
RegistryAfterReport(list, bad) == list

\* An error publisher that keeps the failing observer.
ErrorObserversAll(list, bad) == list

\* _errorLoggerForObserver: the registry without the failing observer.
ErrorObservers(list, bad) == SelectSeq(list, LAMBDA x : x # bad)

-----------------------------------------------------------------------------
\* Frames.

\* A pass: main says whether it runs over the target publisher (its list is
\* then the variable observers) or over an error publisher with the fixed
\* list obs.  idx, cur, broken, phase and ridx are the position in __call__;
\* via, from, start, seen and dirty are history: the beginLoggingTo call
\* whose replay started the pass (0: none), the registry an error publisher
\* was built from, the list when the pass started, the observers invoked so
\* far, and whether the list changed since the pass started.
PassFrame(main, obs, ev, via, from) ==
    [k |-> "pass", main |-> main, obs |-> obs, ev |-> ev, idx |-> 0,
     cur |-> "-", broken |-> <<>>, phase |-> "deliver", ridx |-> 0,
     via |-> via, from |-> from,
     start |-> IF main THEN observers ELSE obs,
     seen |-> <<>>, dirty |-> FALSE]

\* A beginLoggingTo call: site is its caller's file and line (fileNow,
\* lineNow), prev what line 110 read from _previousBegin for the warning
\* (fileThen, lineThen), 0 when the call does not warn.
BeginFrame(call, site, phase, args) ==
    [k |-> "begin", call |-> call, site |-> site, phase |-> phase,
     ridx |-> 0, args |-> args,
     prev |-> IF phase = "warn" THEN prevBegin ELSE 0]

\* A beginner that remembers the first call site only.
KeepFirstSite(previous, site) == IF previous = 0 THEN site ELSE previous

\* Line 114: self._previousBegin = filename, lineno
RecordSite(previous, site) == site

Top == stack[Len(stack)]
Below == SubSeq(stack, 1, Len(stack) - 1)
ReplaceTop(f) == Append(Below, f)

\* The list a pass iterates: the publisher's own _observers, live.
ListOf(f) == IF f.main THEN observers ELSE f.obs

\* A loop that also ends as soon as an observer has raised.
LoopOverAtFirstFailure(f) == f.idx >= Len(ListOf(f)) \/ f.broken # <<>>

\* The for loop of line 102 has no further element.
LoopOver(f) == f.idx >= Len(ListOf(f))

\* History: every pass over the target publisher now on the stack saw the
\* registry change under it.
MarkDirty(stk) ==
    [i \in 1..Len(stk) |->
        IF stk[i].k = "pass" /\ stk[i].main
        THEN [stk[i] EXCEPT !.dirty = TRUE]
        ELSE stk[i]]

\* A beginLoggingTo that keeps its reference to the temporary observer.
KeepTemp == Temp

\* A beginLoggingTo that takes the replay branch on every call.
AlwaysFirst == TRUE

\* if self._temporaryObserver is not None: the branch of the first call.
FirstBranch == tempObs # "None"

\* self._temporaryObserver = None, once the replay is over.
ForgetTemp == "None"

\* A publisher whose error publishers have no try/except.
CatchesMainOnly(f) == f.main

\* try: observer(event) / except Exception (lines 106-109).
Catches(f) == TRUE

\* A publisher whose try/except encloses the whole loop: the first exception
\* ends the delivery.
RECURSIVE UnwindAbort(_)
UnwindAbort(stk) ==
    IF stk = <<>> THEN [stk |-> <<>>, esc |-> TRUE]
    ELSE LET g == stk[Len(stk)]
             rest == SubSeq(stk, 1, Len(stk) - 1)
         IN IF g.k = "pass" /\ g.phase = "deliver" /\ Catches(g)
            THEN [stk |-> Append(rest, [g EXCEPT !.broken = Append(@, g.cur),
                                                 !.phase = "report"]),
                  esc |-> FALSE]
            ELSE UnwindAbort(rest)

\* An exception leaves the innermost frame: that frame is abandoned and the
\* exception goes to its caller.  The caller is an observer body inside a
\* pass in its delivery loop (it is caught there if that pass catches), or
\* the report loop of a pass or beginLoggingTo, which have no handler.
RECURSIVE Unwind(_)
Unwind(stk) ==
    IF stk = <<>> THEN [stk |-> <<>>, esc |-> TRUE]
    ELSE LET g == stk[Len(stk)]
             rest == SubSeq(stk, 1, Len(stk) - 1)
         IN IF g.k = "pass" /\ g.phase = "deliver" /\ Catches(g)
            THEN [stk |-> Append(rest, [g EXCEPT !.broken = Append(@, g.cur)]),
                  esc |-> FALSE]
            ELSE Unwind(rest)

-----------------------------------------------------------------------------
\* LoggingFile (_io.py).  Text is a sequence of characters; a str given to
\* write is text or bytes, and bytes may hold a byte the encoding rejects.

NL == "\n"
Chars == {"a", NL}
NonAscii == "\\xff"

\* unicode strings and byte strings of at most n characters
RECURSIVE SeqsUpTo(_, _)
SeqsUpTo(S, n) ==
    IF n = 0 THEN {<<>>}
    ELSE LET shorter == SeqsUpTo(S, n - 1)
         IN shorter \cup { Append(t, c) : t \in shorter, c \in S }

Strings(n) ==
    { [bytes |-> FALSE, chars |-> t] : t \in SeqsUpTo(Chars, n) }
      \cup { [bytes |-> TRUE, chars |-> t] :
                 t \in SeqsUpTo(Chars \cup {NonAscii}, n) }

\* string.decode(self._encoding) with the default encoding: ASCII bytes
\* become the same characters, any other byte raises UnicodeDecodeError.
Decodable(string) == ~string.bytes \/ NonAscii \notin Range(string.chars)
Decode(string) == string.chars

\* text.split("\n"): the pieces between the newlines, one more than there
\* are newlines
RECURSIVE SplitFrom(_, _)
SplitFrom(text, piece) ==
    IF text = <<>> THEN <<piece>>
    ELSE IF Head(text) = NL
         THEN <<piece>> \o SplitFrom(Tail(text), <<>>)
         ELSE SplitFrom(Tail(text), Append(piece, Head(text)))

Split(text) == SplitFrom(text, <<>>)

\* self.log.emit(self.level, format=u"{message}", message=line)
EmitLine(level, line) ==
    [level |-> level, format |-> "{message}", message |-> line]

\* A file that emits whatever it has after each write, the unterminated
\* rest included.
WriteUnbuffered(f, string) ==
    IF f.closed THEN [file |-> f, raised |-> "ValueError"]
    ELSE IF ~Decodable(string)
    THEN [file |-> f, raised |-> "UnicodeDecodeError"]
    ELSE LET lines == Split(f.buffer \o Decode(string))
             whole == IF lines[Len(lines)] = <<>>
                      THEN SubSeq(lines, 1, Len(lines) - 1)
                      ELSE lines
         IN [file |-> [f EXCEPT
                          !.buffer = <<>>,
                          !.messages = @ \o [i \in 1..Len(whole) |->
                                                EmitLine(f.level, whole[i])]],
             raised |-> "None"]

\* LoggingFile.write(string)
Write(f, string) ==
    IF f.closed THEN [file |-> f, raised |-> "ValueError"]
    ELSE IF ~Decodable(string)
    THEN [file |-> f, raised |-> "UnicodeDecodeError"]
    ELSE LET lines == Split(f.buffer \o Decode(string))
         IN [file |-> [f EXCEPT
                          !.buffer = lines[Len(lines)],
                          !.messages = @ \o [i \in 1..(Len(lines) - 1) |->
                                                EmitLine(f.level, lines[i])]],
             raised |-> "None"]

\* LoggingFile.writelines(lines): write each, stopping where one raises
RECURSIVE Writelines(_, _)
Writelines(f, lines) ==
    IF lines = <<>> THEN [file |-> f, raised |-> "None"]
    ELSE LET r == Write(f, Head(lines))
         IN IF r.raised # "None" THEN r
            ELSE Writelines(r.file, Tail(lines))

\* LoggingFile(): level info, nothing held back, open.  written is history:
\* the text of the writes that returned, in order.
NewFile ==
    [level |-> "info", buffer |-> <<>>, closed |-> FALSE, messages |-> <<>>,
     written |-> <<>>]

-----------------------------------------------------------------------------
InitCommon ==
    /\ file = NewFile
    /\ buffer = <<>>
    /\ prevBegin = 0
    /\ errStream = <<>>
    /\ stack = <<>>
    /\ nextId = 1
    /\ escaped = FALSE
    /\ fired = {}
    /\ received = [u \in Users |-> <<>>]
    /\ hist = [ops |-> 0,            \* calls made from outside
               raises |-> 0,         \* exceptions raised by user observers
               raisesInReport |-> 0, \* those raised on an error report
               reports |-> 0,        \* error reports emitted for them
               begins |-> 0,         \* beginLoggingTo calls started
               overlap |-> FALSE,    \* one started while another was running
               meddled |-> FALSE,    \* an observer changed the registry
               touched |-> FALSE,    \* addObserver or removeObserver was called
               firstArgs |-> <<>>,   \* observers given to the first call
               firstDone |-> FALSE,  \* the first call has returned
               firstRetId |-> 0,     \* nextId when it returned
               offered |-> <<>>,     \* ids given to the initial buffer
               offeredAtBegin |-> <<>>, \* offered, when the first call began
               late |-> <<>>,        \* per call: began after the first ended
               warns |-> <<>>,       \* per call: warnings it emitted
               laterArgs |-> {},     \* observers given to later calls
               pubs |-> {},          \* events published to the target
               unfit |-> 0,          \* calls given something not callable
               refused |-> 0,        \* calls that raised TypeError
               refusedFirst |-> FALSE] \* one did before any call began

\* A publisher and the LogBeginner built on it; the observers it will be
\* given behave in one of these ways.
BeginArgs == { <<"A">>, <<"B">>, <<"A", "B">> }
Profiles ==
    { [u \in Users |-> IF u = "A" THEN a ELSE IF u = "B" THEN b
                       ELSE Does("ok", <<>>)] :
        a \in Plain \cup { Does("begin", <<"B">>), Does("publish", <<>>),
                           Does("remove", <<"A">>), Does("add", <<"C">>) },
        b \in { Does("ok", <<>>), Does("raise", <<>>) } }

\* No library function was called yet, on no event.
NoCall == [op |-> "none"]
NoEvent == [kind |-> "none"]
NoRing == [size |-> 0, buf |-> <<>>, pushed |-> <<>>, count |-> 0]

Init ==
    /\ InitCommon
    /\ observers = <<Temp>>
    /\ tempObs = Temp
    /\ beh \in Profiles
    /\ levels = ClearedLevels("critical")
    /\ out = NoCall
    /\ ring = NoRing
    /\ event = NoEvent
    /\ calls = 0

\* A publisher on its own, built with two or three observers.
FanoutProfiles ==
    { [u \in Users |-> IF u = "A" THEN a ELSE IF u = "B" THEN b ELSE c] :
        a \in Plain \cup { Does("publish", <<>>), Does("remove", <<"A">>),
                           Does("remove", <<"C">>), Does("add", <<"C">>) },
        b \in { Does("ok", <<>>), Does("raise", <<>>),
                Does("remove", <<"A">>) },
        c \in { Does("ok", <<>>), Does("raise", <<>>) } }

InitFanout ==
    /\ InitCommon
    /\ observers \in { <<"A", "B">>, <<"A", "B", "C">> }
    /\ tempObs = "None"
    /\ beh \in FanoutProfiles
    /\ levels = ClearedLevels("critical")
    /\ out = NoCall
    /\ ring = NoRing
    /\ event = NoEvent
    /\ calls = 0

Idle == stack = <<>> /\ ~escaped

InDelivery ==
    /\ stack # <<>>
    /\ Top.k = "pass"
    /\ Top.phase = "deliver"
    /\ ~LoopOver(Top)

\* The observer the loop of line 102 reaches next.
NextObserver == ListOf(Top)[Top.idx + 1]

\* The next observer is user code of this kind that is about to act.
Acts(kind) ==
    /\ InDelivery
    /\ NextObserver \in Users
    /\ beh[NextObserver].kind = kind
    /\ NextObserver \notin fired

Visit(f, o) == [f EXCEPT !.idx = @ + 1, !.cur = o, !.seen = Append(@, o)]

Given(o, f) ==
    [received EXCEPT ![o] = Append(@, [id |-> f.ev.id, via |-> f.via])]

\* A publisher that drops an event given to it while it is delivering.
DropWhenBusy(stk, shape, h) ==
    LET ev == MkEvent(nextId, "user", shape, "-")
    IN /\ stack' = IF stk = <<>>
                   THEN Append(stk, PassFrame(TRUE, <<>>, ev, 0, <<>>))
                   ELSE stk
       /\ hist' = [h EXCEPT
              !.pubs = @ \cup {[id |-> ev.id, level |-> ev.level,
                                pre |-> hist.begins = 0]}]
       /\ nextId' = nextId + 1

\* publisher(event) called with a new event.
StartPublish(stk, shape, h) ==
    LET ev == MkEvent(nextId, "user", shape, "-")
    IN /\ stack' = Append(stk, PassFrame(TRUE, <<>>, ev, 0, <<>>))
       /\ hist' = [h EXCEPT
              !.pubs = @ \cup {[id |-> ev.id, level |-> ev.level,
                                pre |-> hist.begins = 0]}]
       /\ nextId' = nextId + 1

\* beginLoggingTo(args) up to its first call of the publisher: the
\* addObserver loop, then either the removal of the temporary observer (the
\* replay follows) or the warning.
\* A beginner that replays with the temporary observer still attached.
LeaveAttached(list, temp) == list

\* Line 106: self._publisher.removeObserver(self._temporaryObserver), which
\* comes before the replay of line 107.
DetachTemp(list, temp) == RemoveObs(list, temp)

StartBegin(stk, args, h) ==
    LET call == hist.begins + 1
        added == AddAllCall(observers, args).list
        first == FirstBranch
        after == IF first THEN DetachTemp(added, tempObs) ELSE added
        stk1 == IF after # observers THEN MarkDirty(stk) ELSE stk
        warning == LoggerEmit(nextId, "warn", "warn", "-")
        h1 == [h EXCEPT
                 !.begins = call,
                 !.overlap = @ \/ (\E i \in 1..Len(stk) : stk[i].k = "begin"),
                 !.meddled = @ \/ stk # <<>>,
                 !.late = Append(@, hist.firstDone),
                 !.warns = Append(@, IF first THEN 0 ELSE 1)]
    IN /\ observers' = after
       /\ IF first
          THEN /\ stack' = Append(stk1, BeginFrame(call, call, "replay", args))
               /\ nextId' = nextId
               /\ hist' = IF call = 1
                          THEN [h1 EXCEPT !.firstArgs = args,
                                          !.offeredAtBegin = hist.offered]
                          ELSE [h1 EXCEPT !.laterArgs = @ \cup Range(args)]
          ELSE /\ stack' = Append(Append(stk1,
                              BeginFrame(call, call, "warn", args)),
                              [PassFrame(TRUE, <<>>, warning, 0, <<>>)
                                  EXCEPT !.start = after])
               /\ nextId' = nextId + 1
               /\ hist' = [h1 EXCEPT
                     !.laterArgs = @ \cup Range(args),
                     !.pubs = @ \cup {[id |-> warning.id, level |-> "warn",
                                       pre |-> FALSE]}]

Op == [hist EXCEPT !.ops = @ + 1]

-----------------------------------------------------------------------------
\* Operations called from outside any observer.

Publish(shape) ==
    /\ Idle
    /\ hist.ops < MaxOps
    /\ StartPublish(stack, shape, Op)
    /\ UNCHANGED <<lib, observers, buffer, tempObs, prevBegin, errStream, escaped,
                   beh, fired, received>>

AddObserver(u) ==
    /\ Idle
    /\ hist.ops < MaxOps
    /\ observers' = AddObs(observers, u)
    /\ hist' = [Op EXCEPT !.touched = TRUE]
    /\ UNCHANGED <<lib, buffer, tempObs, prevBegin, errStream, stack, nextId,
                   escaped, beh, fired, received>>

RemoveObserver(u) ==
    /\ Idle
    /\ hist.ops < MaxOps
    /\ observers' = RemoveObs(observers, u)
    /\ hist' = [Op EXCEPT !.touched = TRUE]
    /\ UNCHANGED <<lib, buffer, tempObs, prevBegin, errStream, stack, nextId,
                   escaped, beh, fired, received>>

BeginLoggingTo(args) ==
    /\ Idle
    /\ hist.ops < MaxOps
    /\ LET r == AddAllCall(observers, args)
           given == [Op EXCEPT !.unfit =
                        IF FirstNotCallable(args) = 0 THEN @ ELSE @ + 1]
       IN IF r.raised
          THEN /\ observers' = r.list
               /\ hist' = [given EXCEPT
                              !.refused = @ + 1,
                              !.refusedFirst = @ \/ hist.begins = 0,
                              !.touched = @ \/ r.list # observers]
               /\ UNCHANGED <<stack, nextId>>
          ELSE StartBegin(stack, args, given)
    /\ UNCHANGED <<lib, buffer, tempObs, prevBegin, errStream, escaped, beh, fired,
                   received>>

-----------------------------------------------------------------------------
\* LogPublisher.__call__, one observer per step.

\* The temporary observer is given the event: the buffer keeps it; the
\* filtered file observer writes it, ignores it or raises, and a raise is
\* reported by the temporary publisher to its other observer, the buffer.
InvokeTemp ==
    /\ InDelivery
    /\ NextObserver = Temp
    /\ LET f == Top
           did == TempOutcome(f.ev)
           kept == RingAppend(buffer, BufferMaximum, f.ev)
           report == LoggerEmit(nextId, "report", "critical", "filter")
       IN /\ stack' = ReplaceTop(Visit(f, Temp))
          /\ buffer' = IF did = "raise"
                       THEN RingAppend(kept, BufferMaximum, report)
                       ELSE kept
          /\ nextId' = IF did = "raise" THEN nextId + 1 ELSE nextId
          /\ errStream' = IF did = "write" THEN Append(errStream, f.ev.id)
                          ELSE errStream
          /\ hist' = [hist EXCEPT !.offered =
                         IF did = "raise" THEN @ \o <<f.ev.id, report.id>>
                         ELSE Append(@, f.ev.id)]
    /\ UNCHANGED <<lib, observers, tempObs, prevBegin, escaped, beh, fired,
                   received>>

\* The observer's code runs and returns.
ObserverReturns ==
    /\ InDelivery
    /\ NextObserver \in Users
    /\ \/ beh[NextObserver].kind = "ok"
       \/ beh[NextObserver].kind # "raise" /\ NextObserver \in fired
    /\ stack' = ReplaceTop(Visit(Top, NextObserver))
    /\ received' = Given(NextObserver, Top)
    /\ UNCHANGED <<lib, observers, buffer, tempObs, prevBegin, errStream, nextId,
                   escaped, beh, fired, hist>>

\* The observer's code raises an Exception.
ObserverRaises ==
    /\ InDelivery
    /\ NextObserver \in Users
    /\ \/ beh[NextObserver].kind = "raise"
       \/ Acts("raiseOnce")
    /\ received' = Given(NextObserver, Top)
    /\ fired' = fired \cup {NextObserver}
    /\ hist' = [hist EXCEPT
           !.raises = @ + 1,
           !.raisesInReport = IF Top.main THEN @ ELSE @ + 1]
    /\ LET up == Unwind(ReplaceTop(Visit(Top, NextObserver)))
       IN /\ stack' = up.stk
          /\ escaped' = up.esc
    /\ UNCHANGED <<lib, observers, buffer, tempObs, prevBegin, errStream, nextId,
                   beh>>

ObserverAdds ==
    /\ Acts("add")
    /\ observers' = AddObs(observers, beh[NextObserver].arg[1])
    /\ stack' = LET s1 == ReplaceTop(Visit(Top, NextObserver))
                IN IF observers' # observers THEN MarkDirty(s1) ELSE s1
    /\ received' = Given(NextObserver, Top)
    /\ fired' = fired \cup {NextObserver}
    /\ hist' = [hist EXCEPT !.meddled = TRUE, !.touched = TRUE]
    /\ UNCHANGED <<lib, buffer, tempObs, prevBegin, errStream, nextId, escaped,
                   beh>>

ObserverRemoves ==
    /\ Acts("remove")
    /\ observers' = RemoveObs(observers, beh[NextObserver].arg[1])
    /\ stack' = LET s1 == ReplaceTop(Visit(Top, NextObserver))
                IN IF observers' # observers THEN MarkDirty(s1) ELSE s1
    /\ received' = Given(NextObserver, Top)
    /\ fired' = fired \cup {NextObserver}
    /\ hist' = [hist EXCEPT !.meddled = TRUE, !.touched = TRUE]
    /\ UNCHANGED <<lib, buffer, tempObs, prevBegin, errStream, nextId, escaped,
                   beh>>

ObserverPublishes ==
    /\ Acts("publish")
    /\ received' = Given(NextObserver, Top)
    /\ fired' = fired \cup {NextObserver}
    /\ StartPublish(ReplaceTop(Visit(Top, NextObserver)), Bare, hist)
    /\ UNCHANGED <<lib, observers, buffer, tempObs, prevBegin, errStream, escaped,
                   beh>>

\* The for loop of line 102 finds no further element.
PassLoopDone ==
    /\ stack # <<>>
    /\ Top.k = "pass"
    /\ Top.phase = "deliver"
    /\ LoopOver(Top)
    /\ stack' = ReplaceTop([Top EXCEPT !.phase = "report"])
    /\ UNCHANGED <<lib, observers, buffer, tempObs, prevBegin, errStream, nextId,
                   escaped, beh, fired, received, hist>>

\* Lines 111-117: the next captured failure goes to a new publisher holding
\* this publisher's observers except the broken one.
Report ==
    /\ stack # <<>>
    /\ Top.k = "pass"
    /\ Top.phase = "report"
    /\ Top.ridx < Len(Top.broken)
    /\ LET f == Top
           bad == f.broken[f.ridx + 1]
           obs == ErrorObservers(ListOf(f), bad)
           ev == LoggerEmit(nextId, "report", "critical", bad)
       IN stack' = Append(ReplaceTop([f EXCEPT !.ridx = @ + 1]),
                          PassFrame(FALSE, obs, ev, 0, ListOf(f)))
    /\ observers' = IF Top.main
                     THEN RegistryAfterReport(observers, Top.broken[Top.ridx + 1])
                     ELSE observers
    /\ nextId' = nextId + 1
    /\ hist' = [hist EXCEPT !.reports = @ + 1]
    /\ UNCHANGED <<lib, buffer, tempObs, prevBegin, errStream, escaped, beh, fired,
                   received>>

PassReturn ==
    /\ stack # <<>>
    /\ Top.k = "pass"
    /\ Top.phase = "report"
    /\ Top.ridx >= Len(Top.broken)
    /\ stack' = Below
    /\ UNCHANGED <<lib, observers, buffer, tempObs, prevBegin, errStream, nextId,
                   escaped, beh, fired, received, hist>>

-----------------------------------------------------------------------------
\* LogBeginner.beginLoggingTo after its first lines.

ObserverBegins ==
    /\ Acts("begin")
    /\ received' = Given(NextObserver, Top)
    /\ fired' = fired \cup {NextObserver}
    /\ StartBegin(ReplaceTop(Visit(Top, NextObserver)), beh[NextObserver].arg,
                  hist)
    /\ UNCHANGED <<lib, buffer, tempObs, prevBegin, errStream, escaped, beh>>

\* RingBufferLogObserver.replayTo(publisher): the next buffered event.
ReplayStep ==
    /\ stack # <<>>
    /\ Top.k = "begin"
    /\ Top.phase = "replay"
    /\ Top.ridx < Len(buffer)
    /\ stack' = Append(ReplaceTop([Top EXCEPT !.ridx = @ + 1]),
                       PassFrame(TRUE, <<>>,
                                 ReplayEvent(buffer, Top.ridx + 1), Top.call,
                                 <<>>))
    /\ UNCHANGED <<lib, observers, buffer, tempObs, prevBegin, errStream, nextId,
                   escaped, beh, fired, received, hist>>

\* Lines 108 and 114: the call forgets the temporary observer if it replayed,
\* records its call site and returns.
BeginReturn ==
    /\ stack # <<>>
    /\ Top.k = "begin"
    /\ Top.phase = "replay" => Top.ridx >= Len(buffer)
    /\ tempObs' = IF Top.phase = "replay" THEN ForgetTemp ELSE tempObs
    /\ prevBegin' = RecordSite(prevBegin, Top.site)
    /\ stack' = Below
    /\ hist' = IF Top.call = 1
               THEN [hist EXCEPT !.firstDone = TRUE, !.firstRetId = nextId]
               ELSE hist
    /\ UNCHANGED <<lib, observers, buffer, errStream, nextId, escaped, beh, fired,
                   received>>

-----------------------------------------------------------------------------
PassSteps ==
    \/ ObserverReturns
    \/ ObserverRaises
    \/ ObserverAdds
    \/ ObserverRemoves
    \/ ObserverPublishes
    \/ PassLoopDone
    \/ Report
    \/ PassReturn

Next ==
    \/ \E shape \in Shapes : Publish(shape)
    \/ \E args \in BeginArgs : BeginLoggingTo(args)
    \/ InvokeTemp
    \/ ObserverBegins
    \/ ReplayStep
    \/ BeginReturn
    \/ PassSteps

Spec == Init /\ [][Next]_vars

\* A beginner on a publisher that is also given observers directly, with
\* publisher.addObserver, before and after logging begins (SpecEarly).  The
\* observers return or raise and do nothing else.
EarlyProfiles ==
    { [u \in Users |-> IF u = "A" THEN a ELSE Does("ok", <<>>)] :
        a \in { Does("ok", <<>>), Does("raise", <<>>) } }

InitEarly ==
    /\ InitCommon
    /\ observers = <<Temp>>
    /\ tempObs = Temp
    /\ beh \in EarlyProfiles
    /\ levels = ClearedLevels("critical")
    /\ out = NoCall
    /\ ring = NoRing
    /\ event = NoEvent
    /\ calls = 0

NextEarly ==
    \/ \E shape \in Shapes : Publish(shape)
    \/ \E u \in {"A", "C"} : AddObserver(u)
    \/ \E args \in BeginArgs : BeginLoggingTo(args)
    \/ InvokeTemp
    \/ ReplayStep
    \/ BeginReturn
    \/ ObserverReturns
    \/ ObserverRaises
    \/ PassLoopDone
    \/ Report
    \/ PassReturn

SpecEarly == InitEarly /\ [][NextEarly]_vars

\* A publisher on its own whose observers return or raise, every time they
\* are called, and do nothing else (SpecRaising).  A call that was started
\* runs on until it returns: the steps inside a call are weakly fair.
RaisingProfiles == [Users -> { Does("ok", <<>>), Does("raise", <<>>) }]

InitRaising ==
    /\ InitCommon
    /\ observers \in { <<"A", "B">>, <<"A", "B", "C">> }
    /\ tempObs = "None"
    /\ beh \in RaisingProfiles
    /\ levels = ClearedLevels("critical")
    /\ out = NoCall
    /\ ring = NoRing
    /\ event = NoEvent
    /\ calls = 0

RaisingSteps ==
    \/ ObserverReturns
    \/ ObserverRaises
    \/ PassLoopDone
    \/ Report
    \/ PassReturn

NextRaising ==
    \/ Publish(Bare)
    \/ RaisingSteps

SpecRaising == InitRaising /\ [][NextRaising]_vars /\ WF_vars(RaisingSteps)

\* A beginner whose beginLoggingTo is also given lists that hold something
\* that is not callable (SpecRefused).  The observers return or raise.
RefusedArgs == { <<NotCallable>>, <<"A", NotCallable>>, <<NotCallable, "B">> }

NextRefused ==
    \/ \E shape \in Shapes : Publish(shape)
    \/ \E args \in BeginArgs \cup RefusedArgs : BeginLoggingTo(args)
    \/ InvokeTemp
    \/ ReplayStep
    \/ BeginReturn
    \/ ObserverReturns
    \/ ObserverRaises
    \/ PassLoopDone
    \/ Report
    \/ PassReturn

SpecRefused == InitEarly /\ [][NextRefused]_vars

NextFanout ==
    \/ Publish(Bare)
    \/ \E u \in Users : AddObserver(u)
    \/ \E u \in Users : RemoveObserver(u)
    \/ PassSteps

SpecFanout == InitFanout /\ [][NextFanout]_vars

-----------------------------------------------------------------------------
\* A LogLevelFilterPredicate built with its default level, and
\* FilteringLogObservers over chains of predicates (_filter.py).

\* LogLevelFilterPredicate.__init__(defaultLogLevel=LogLevel.info)
DefaultLogLevel == "info"

\* The namespaces asked about, and those a level is configured for.
Namespaces == { Unnamed, <<"a">>, <<"a", "b">>, <<"a", "b", "c">>, <<"x">> }
SetNamespaces == { Unnamed, <<"a">>, <<"a", "b">> }

\* The levels callers pass to setLogLevelForNamespace; "bogus" is not a
\* LogLevel constant.
GivenLevels == { "debug", "error", "bogus" }

\* What a predicate may return; "bogus" is not a PredicateResult.
Answers == { "yes", "no", "maybe", "bogus" }
Chains == UNION { [1..n -> Answers] : n \in 0..MaxChain }

InitFilter ==
    /\ InitCommon
    /\ observers = <<>>
    /\ tempObs = "None"
    /\ beh = [u \in Users |-> Does("ok", <<>>)]
    /\ levels = ClearedLevels(DefaultLogLevel)
    /\ out = NoCall
    /\ ring = NoRing
    /\ event = NoEvent
    /\ calls = 0

SetLogLevelForNamespace(ns, level) ==
    LET r == SetLogLevel(levels, ns, level)
    IN /\ levels' = r.map
       /\ out' = [op |-> "set", ns |-> ns, level |-> level,
                  raised |-> r.raised]
       /\ UNCHANGED <<pipeline, file, event, calls, ring>>

AskLogLevelForNamespace(ns) ==
    /\ out' = [op |-> "resolve", ns |-> ns,
               result |-> LogLevelForNamespace(levels, ns)]
    /\ UNCHANGED <<levels, pipeline, file, event, calls, ring>>

\* clearLogLevels(); was is the map when it was called.
ClearLogLevels ==
    /\ levels' = AfterClear(levels, DefaultLogLevel)
    /\ out' = [op |-> "clear", was |-> levels]
    /\ UNCHANGED <<pipeline, file, event, calls, ring>>

\* predicate(event) for an event with this level and namespace.
CallLevelFilter(level, named, ns) ==
    /\ out' = [op |-> "predicate", level |-> level, named |-> named,
               ns |-> ns, result |-> LevelFilter(levels, level, named, ns)]
    /\ UNCHANGED <<levels, pipeline, file, event, calls, ring>>

\* FilteringLogObserver.__call__ with predicates that give these results:
\* the wrapped observer is called when shouldLogEvent returns True, and a
\* TypeError raised by shouldLogEvent goes to the caller.
CallFilteringObserver(chain) ==
    LET r == FilterRun(chain, 0)
    IN /\ out' = [op |-> "filter", chain |-> chain, asked |-> r.asked,
                  forwarded |-> r.verdict = "forward",
                  raised |-> r.verdict = "TypeError"]
       /\ UNCHANGED <<levels, pipeline, file, event, calls, ring>>

NextFilter ==
    \/ \E ns \in SetNamespaces, level \in GivenLevels :
          SetLogLevelForNamespace(ns, level)
    \/ \E ns \in Namespaces : AskLogLevelForNamespace(ns)
    \/ ClearLogLevels
    \/ \E level \in Levels \cup {"none"}, ns \in Namespaces :
          CallLevelFilter(level, TRUE, ns)
    \/ \E level \in Levels \cup {"none"} :
          CallLevelFilter(level, FALSE, Unnamed)
    \/ \E chain \in Chains : CallFilteringObserver(chain)

SpecFilter == InitFilter /\ [][NextFilter]_vars

-----------------------------------------------------------------------------
\* formatEvent and flattenEvent applied to one event (_format.py).

Fields ==
    { Item(lit, name, spec, conv) :
        lit \in {"", "t"}, name \in {"x", "f()"},
        spec \in {"", "05"}, conv \in {"", "r"} }

\* What parse yields for the formats considered: up to MaxItems fields, with
\* or without literal text after the last one.
Templates == UNION { [1..n -> Fields] : n \in 0..MaxItems }
Parsed ==
    Templates \cup { Append(t, Item("t", NoField, "", "")) : t \in Templates }

NotFlat == [has |-> FALSE, fields |-> <<>>]

Events ==
    { [kind |-> kind, items |-> items, thunk |-> thunk, reprOk |-> reprOk,
       n |-> 0, flat |-> NotFlat] :
        kind \in {"text", "bytes", "none", "other"}, items \in Parsed,
        thunk \in {"ok", "raise", "count"}, reprOk \in BOOLEAN }

\* A format of more than two fields, taken without literal text and without
\* format specs.
Long(items) == Len(SelectSeq(items, LAMBDA it : it.name # NoField)) > 2
Terse(items) ==
    \A i \in 1..Len(items) :
        items[i].name # NoField => (items[i].lit = "" /\ items[i].spec = "")

\* The events formatted: those without a usable format have no items, and
\* bytes formats and events whose repr raises are taken with short formats.
InitFormat ==
    /\ InitCommon
    /\ observers = <<>>
    /\ tempObs = "None"
    /\ beh = [u \in Users |-> Does("ok", <<>>)]
    /\ levels = ClearedLevels(DefaultLogLevel)
    /\ out = NoCall
    /\ ring = NoRing
    /\ calls = 0
    /\ event \in { e \in Events :
                     /\ e.kind \in {"none", "other"} => e.items = <<>>
                     /\ e.kind = "bytes" => Len(e.items) <= 1
                     /\ ~e.reprOk => Len(e.items) <= 1
                     /\ Long(e.items) => Terse(e.items) }

\* formatEvent(event)
CallFormatEvent ==
    LET r == FormatEvent(event)
    IN /\ event.n < MaxCalls
       /\ out' = [op |-> "format", raised |-> r.raised, marker |-> r.marker,
                  text |-> r.text]
       /\ calls' = r.calls
       /\ event' = Called(event, r.calls)
       /\ UNCHANGED <<pipeline, file, levels, ring>>

\* flattenEvent(event); before is what formatEvent gives for the event as it
\* is when flattenEvent is called, was its log_flattened at that time.
CallFlattenEvent ==
    LET r == FlattenEvent(event)
    IN /\ event.n < MaxCalls
       /\ event' = r.event
       /\ out' = [op |-> "flatten", raised |-> r.raised,
                  before |-> FormatEvent(event), was |-> event.flat,
                  given |-> event]
       /\ calls' = r.calls
       /\ UNCHANGED <<pipeline, file, levels, ring>>

\* eventFromJSON(eventAsJSON(event)); given is the event handed in, loaded
\* what eventFromJSON returns when eventAsJSON returned.
CallSaveLoad ==
    LET r == EventAsJSON(event)
    IN /\ event.n < MaxCalls
       /\ event' = r.event
       /\ out' = [op |-> "json", raised |-> r.raised, given |-> event,
                  loaded |-> IF r.raised THEN NoEvent
                             ELSE EventFromJSON(r.doc)]
       /\ calls' = r.calls
       /\ UNCHANGED <<pipeline, file, levels, ring>>

\* The event, with this log_level and a namespace, given to a
\* FilteringLogObserver whose predicate is a LogLevelFilterPredicate and
\* whose observer formats the event.
CallFilteredFormat(level) ==
    LET run == FilterRun(<<LevelFilter(levels, level, TRUE, <<"a">>)>>, 0)
        r == FormatIfForwarded(event, run.verdict)
    IN /\ event.n < MaxCalls
       /\ out' = [op |-> "deliver", level |-> level,
                  forwarded |-> run.verdict = "forward", marker |-> r.marker,
                  given |-> event]
       /\ calls' = r.calls
       /\ event' = Called(event, r.calls)
       /\ UNCHANGED <<pipeline, file, levels, ring>>

NextFormat ==
    \/ \E level \in {"debug", "error", "none"} : CallFilteredFormat(level)
    \/ CallFormatEvent
    \/ CallFlattenEvent
    \/ CallSaveLoad

SpecFormat == InitFormat /\ [][NextFormat]_vars

-----------------------------------------------------------------------------
\* The registry of a LogPublisher on its own (_observer.py): construction
\* with any observers, addObserver, removeObserver, and passes over observers
\* that return.

\* LogPublisher(*observers): the argument lists considered.
Constructed == UNION { [1..n -> Users] : n \in 0..MaxInitial }

InitRegistry ==
    /\ InitCommon
    /\ observers \in Constructed
    /\ tempObs = "None"
    /\ beh = [u \in Users |-> Does("ok", <<>>)]
    /\ levels = ClearedLevels(DefaultLogLevel)
    /\ out = NoCall
    /\ ring = NoRing
    /\ event = NoEvent
    /\ calls = 0

\* publisher.addObserver(o); was is the registry when it was called.
RegistryAdd(o) ==
    LET r == AddObserverCall(observers, o)
    IN /\ observers' = r.list
       /\ out' = [op |-> "add", arg |-> o, raised |-> r.raised,
                  was |-> observers, invoked |-> <<>>]
       /\ UNCHANGED <<buffer, tempObs, prevBegin, errStream, stack, nextId,
                      escaped, beh, fired, received, hist, levels, event,
                      calls, ring, file>>

\* publisher.removeObserver(o)
RegistryRemove(o) ==
    /\ observers' = RemoveObs(observers, o)
    /\ out' = [op |-> "remove", arg |-> o, raised |-> FALSE,
               was |-> observers, invoked |-> <<>>]
    /\ UNCHANGED <<buffer, tempObs, prevBegin, errStream, stack, nextId,
                   escaped, beh, fired, received, hist, levels, event,
                   calls, ring, file>>

\* publisher(event) with observers that return: the loop of line 102 calls
\* the entries of _observers one after the other.
RegistryPass ==
    /\ out' = [op |-> "pass", arg |-> "-", raised |-> FALSE,
               was |-> observers,
               invoked |-> [i \in 1..Len(observers) |-> observers[i]]]
    /\ UNCHANGED <<pipeline, file, levels, event, calls, ring>>

NextRegistry ==
    \/ \E o \in Users \cup {NotCallable} : RegistryAdd(o)
    \/ \E o \in Users \cup {NotCallable} : RegistryRemove(o)
    \/ RegistryPass

SpecRegistry == InitRegistry /\ [][NextRegistry]_vars

-----------------------------------------------------------------------------
\* One event, with or without log_trace, given to a publisher "P" whose
\* observers are plain observers, filtering observers and a nested publisher
\* (test_trace).

Verdicts == {"forward", "drop", "TypeError"}

Nested ==
    { Publisher("Q", <<Observer("o4")>>),
      Publisher("Q", <<Observer("o4"), Observer("o5")>>) }
      \cup { Publisher("Q", <<Filtering("G", v, Observer("o4")),
                              Observer("o5")>>) : v \in Verdicts }

Registered ==
    { Observer("o1"), Observer("o2") }
      \cup { Filtering("F", v, Observer("o3")) : v \in Verdicts }
      \cup { Filtering("F", v, q) : v \in Verdicts, q \in Nested }
      \cup Nested

Registries ==
    { r \in UNION { [1..n -> Registered] : n \in 1..MaxRegistered } :
        \A i, j \in 1..Len(r) : r[i].id = r[j].id => i = j }

InitTrace ==
    /\ InitCommon
    /\ observers \in Registries
    /\ tempObs = "None"
    /\ beh = [u \in Users |-> Does("ok", <<>>)]
    /\ levels = ClearedLevels(DefaultLogLevel)
    /\ out = NoCall
    /\ ring = NoRing
    /\ calls = 0
    /\ \E traced \in BOOLEAN :
          event = [kind |-> "trace", traced |-> traced, trace |-> <<>>]

\* publisher(event), once: the event as the call leaves it, and what the
\* observers saw.
PublishTraced ==
    /\ out = NoCall
    /\ LET r == Deliver(Publisher("P", observers), "caller",
                        [traced |-> event.traced, trace |-> event.trace,
                         seen |-> <<>>])
       IN /\ event' = [event EXCEPT !.trace = r.trace]
          /\ out' = [op |-> "publish", seen |-> r.seen]
    /\ UNCHANGED <<pipeline, file, levels, calls, ring>>

NextTrace == PublishTraced

SpecTrace == InitTrace /\ [][NextTrace]_vars

-----------------------------------------------------------------------------
\* A RingBufferLogObserver on its own (_buffer.py).  Events are numbered in
\* the order they are pushed; pushed is the history of the events given since
\* the last clear().

Sizes == (0..BufferMaximum) \cup {NoMaxlen}

\* RingBufferLogObserver(size)
InitRing ==
    /\ InitCommon
    /\ observers = <<>>
    /\ tempObs = "None"
    /\ beh = [u \in Users |-> Does("ok", <<>>)]
    /\ levels = ClearedLevels(DefaultLogLevel)
    /\ out = NoCall
    /\ event = NoEvent
    /\ calls = 0
    /\ \E size \in Sizes :
          ring = [size |-> size, buf |-> <<>>, pushed |-> <<>>, count |-> 0]

\* observer(event)
RingCall ==
    /\ ring.count < MaxPushes
    /\ LET ev == ring.count + 1
       IN ring' = [ring EXCEPT !.buf = RingAppend(@, ring.size, ev),
                               !.pushed = Append(@, ev),
                               !.count = ev]
    /\ out' = [op |-> "push"]
    /\ UNCHANGED <<pipeline, file, levels, event, calls>>

\* observer.clear()
RingClear ==
    /\ ring' = [ring EXCEPT !.buf = <<>>, !.pushed = <<>>]
    /\ out' = [op |-> "clear"]
    /\ UNCHANGED <<pipeline, file, levels, event, calls>>

\* len(observer) and list(observer)
RingRead ==
    /\ out' = [op |-> "read", len |-> Len(ring.buf), listed |-> ring.buf]
    /\ UNCHANGED <<pipeline, file, levels, event, calls, ring>>

\* observer.replayTo(otherObserver), with an otherObserver that records what
\* it is given and returns; was is the deque when replayTo was called.
RingReplayTo ==
    /\ out' = [op |-> "replay", was |-> ring.buf,
               got |-> [i \in 1..Len(ring.buf) |-> ReplayEvent(ring.buf, i)]]
    /\ UNCHANGED <<pipeline, file, levels, event, calls, ring>>

NextRing ==
    \/ RingCall
    \/ RingClear
    \/ RingRead
    \/ RingReplayTo

SpecRing == InitRing /\ [][NextRing]_vars

-----------------------------------------------------------------------------
\* A LoggingFile written to from outside (SpecIO).

MaxWrite == 2      \* characters in one string given to write
MaxLines == 2      \* strings in one writelines call
MaxWritten == 4    \* characters written to the file altogether

InitIO ==
    /\ InitCommon
    /\ observers = <<>>
    /\ tempObs = "None"
    /\ beh = [u \in Users |-> Does("ok", <<>>)]
    /\ levels = ClearedLevels(DefaultLogLevel)
    /\ out = NoCall
    /\ event = NoEvent
    /\ calls = 0
    /\ ring = NoRing

\* The text of the strings of lines that writelines wrote before one raised.
RECURSIVE Accepted(_, _)
Accepted(f, lines) ==
    IF lines = <<>> \/ f.closed \/ ~Decodable(Head(lines)) THEN <<>>
    ELSE Decode(Head(lines)) \o Accepted(f, Tail(lines))

\* All the characters of lines, one string after the other.
RECURSIVE Joined(_)
Joined(lines) ==
    IF lines = <<>> THEN <<>> ELSE Head(lines).chars \o Joined(Tail(lines))

\* The arguments of writelines: at most n strings, each empty or a single
\* character.
LinesWithin(n) == UNION { [1..k -> Strings(1)] : k \in 0..n }

\* f.write(string)
FileWrite(string) ==
    /\ Len(file.written) + Len(string.chars) <= MaxWritten
    /\ LET r == Write(file, string)
       IN /\ file' = [r.file EXCEPT !.written = @ \o Accepted(file, <<string>>)]
          /\ out' = [op |-> "write", raised |-> r.raised, held |-> file.buffer]
    /\ UNCHANGED <<pipeline, levels, event, calls, ring>>

\* f.writelines(lines)
FileWritelines(lines) ==
    /\ Len(file.written) + Len(Joined(lines)) <= MaxWritten
    /\ LET r == Writelines(file, lines)
       IN /\ file' = [r.file EXCEPT !.written = @ \o Accepted(file, lines)]
          /\ out' = [op |-> "writelines", raised |-> r.raised, held |-> file.buffer]
    /\ UNCHANGED <<pipeline, levels, event, calls, ring>>

\* f.close()
FileClose ==
    /\ file' = [file EXCEPT !.closed = TRUE]
    /\ out' = [op |-> "close", raised |-> "None", held |-> file.buffer]
    /\ UNCHANGED <<pipeline, levels, event, calls, ring>>

NextIO ==
    \/ \E string \in Strings(MaxWrite) : FileWrite(string)
    \/ \E lines \in LinesWithin(MaxLines) :
          FileWritelines(lines)
    \/ FileClose

SpecIO == InitIO /\ [][NextIO]_vars

-----------------------------------------------------------------------------
\* Properties of the publisher (SpecFanout).

Frames == { stack[i] : i \in 1..Len(stack) }
Passes == { f \in Frames : f.k = "pass" }

\* C1: an observer that raises never prevents delivery of the event to the
\* other observers: when the delivery loop of a pass is over, and the
\* registry was not changed while the pass ran, every observer registered
\* when the pass started has been invoked with the event, whether it stands
\* before or after an observer that raised.
C1_RaiseDoesNotStopDelivery ==
    \A f \in Passes :
        (f.phase = "report" /\ ~f.dirty)
            => /\ Range(f.start) \subseteq Range(f.seen)
               /\ \A o \in Range(f.start) \cap Users :
                      \E i \in 1..Len(received[o]) :
                          received[o][i].id = f.ev.id

\* A pass over three observers whose middle one raised has invoked all three.
C1_Witness ==
    \E f \in Passes :
        /\ f.phase = "report" /\ ~f.dirty
        /\ Len(f.start) = 3
        /\ f.broken = <<f.start[2]>>
        /\ f.seen = f.start

\* C2: publisher(event) never lets an exception raised by an observer reach
\* its caller, in the delivery pass and in the passes that deliver the error
\* reports alike.
C2_NoObserverExceptionEscapes == ~escaped

\* A call has returned during which an observer raised on the event and an
\* observer raised on an error report.
C2_Witness ==
    /\ Idle
    /\ hist.raisesInReport > 0
    /\ hist.raises > hist.raisesInReport

\* C3: a pass in flight is not affected by observers added or removed while
\* it runs: it invokes exactly the observers registered when it started,
\* in their order.
C3_PassIteratesSnapshot ==
    \A f \in Passes : f.phase = "report" => f.seen = f.start

\* C10: an exception raised by an observer produces exactly one error
\* report; the report goes to every other observer registered on the
\* publisher and never to the observer that raised.
C10_OneReportToTheOthers ==
    /\ hist.reports <= hist.raises
    /\ Idle => hist.reports = hist.raises
    /\ \A f \in Passes :
          /\ f.ridx <= Len(f.broken)
          /\ ~f.main =>
                /\ f.ev.kind = "report"
                /\ f.ev.about \notin Range(f.seen)
                /\ f.phase = "report" =>
                      Range(f.seen) = Range(f.from) \ {f.ev.about}

\* The report about a raising observer has been delivered to the two other
\* observers of the publisher.
C10_Witness ==
    \E f \in Passes :
        /\ ~f.main
        /\ f.phase = "report"
        /\ Len(f.from) = 3
        /\ f.ev.about \in Range(f.from)
        /\ Len(f.seen) = 2

\* C11: a failure does not disable the observer.  Delivering an event,
\* capturing and reporting failures included, leaves the registry as it was:
\* while a pass runs during which no observer called addObserver or
\* removeObserver, the registry is the one the pass started with; and when
\* the registry was never changed, every observer in it, those that raised
\* included, has been given every event published so far.
C11_FailureDoesNotDisable ==
    /\ \A f \in Passes : (f.main /\ ~f.dirty) => observers = f.start
    /\ (Idle /\ ~hist.touched) =>
          \A u \in Range(observers) : \A p \in hist.pubs :
              \E i \in 1..Len(received[u]) : received[u][i].id = p.id

\* Two events were published to an unchanged registry and an observer that
\* raises every time raised on both.
C11_Witness ==
    /\ Idle /\ ~hist.touched
    /\ Cardinality(hist.pubs) >= 2
    /\ \E u \in Range(observers) :
          /\ beh[u].kind = "raise"
          /\ \A p \in hist.pubs :
                 \E i \in 1..Len(received[u]) : received[u][i].id = p.id

IsPrefix(s, t) == Len(s) <= Len(t) /\ s = SubSeq(t, 1, Len(s))

\* The registry keeps insertion order: a step that registers an observer puts
\* it after those already registered.
AppendsAtEnd ==
    Len(observers') > Len(observers)
        => /\ Len(observers') = Len(observers) + 1
           /\ IsPrefix(observers, observers')

\* The observers a pass has invoked so far are the first ones of the
\* registry it started with, in registry order, whether or not some raised.
InvokedInRegistryOrder ==
    \A f \in Passes : ~f.dirty => IsPrefix(f.seen, f.start)

\* C12: a publisher invokes its observers in registry insertion order
\* (constructor order, then order of addObserver), and the order in which the
\* non-raising observers are given the event is the same whether or not
\* another observer raises.
C12_InsertionOrderDelivery ==
    [](InvokedInRegistryOrder) /\ [][AppendsAtEnd]_vars

\* B was constructed after A, A was removed and registered again: a pass
\* invoked B, which raised, and then A.
C12_Witness ==
    \E f \in Passes :
        /\ f.main /\ ~f.dirty
        /\ f.phase = "report"
        /\ f.start = <<"B", "A">>
        /\ f.seen = f.start
        /\ f.broken = <<"B">>

-----------------------------------------------------------------------------
\* Properties of the LogBeginner (Spec).

Ids(ds) == [i \in 1..Len(ds) |-> ds[i].id]

RECURSIVE IsSubseq(_, _)
IsSubseq(s, t) ==
    IF s = <<>> THEN TRUE
    ELSE IF t = <<>> THEN FALSE
    ELSE IF Head(s) = Head(t) THEN IsSubseq(Tail(s), Tail(t))
    ELSE IsSubseq(s, Tail(t))

LastN(s, n) == IF Len(s) <= n THEN s ELSE SubSeq(s, Len(s) - n + 1, Len(s))

\* The deliveries made to u by the replay of the first beginLoggingTo call.
Replayed(u) == SelectSeq(received[u], LAMBDA d : d.via = 1)

\* The events the initial buffer still holds when the first call begins.
Window == LastN(hist.offeredAtBegin, BufferMaximum)

Attached == Range(hist.firstArgs)

\* C4: the events published before the first beginLoggingTo call are
\* replayed to the observers attached by that call in their original
\* order, and each of these observers is given every replayed event before
\* any event published after the call returned.
C4_ReplayInOrderBeforeLaterEvents ==
    \A u \in Attached :
        /\ IsSubseq(Ids(Replayed(u)), hist.offeredAtBegin)
        /\ \A i, j \in 1..Len(received[u]) :
               (/\ i < j
                /\ hist.firstDone
                /\ received[u][i].via = 0
                /\ received[u][i].id >= hist.firstRetId)
                   => received[u][j].via = 0

\* An observer attached by the first call was given two replayed events and
\* then an event published after the call.
C4_Witness ==
    \E u \in Attached :
        /\ hist.firstDone
        /\ Len(Replayed(u)) >= 2
        /\ Ids(Replayed(u)) = Window
        /\ \E i \in 1..Len(received[u]) :
               received[u][i].via = 0 /\ received[u][i].id >= hist.firstRetId

\* C5, as stated: for any number of events published before the first
\* beginLoggingTo call, every one of them has been delivered to each
\* observer attached by that call once the call has returned.
C5_NoEventLostForAnyNumber ==
    (hist.firstDone /\ ~hist.meddled) =>
        \A u \in Attached : \A p \in hist.pubs :
            p.pre => \E i \in 1..Len(received[u]) : received[u][i].id = p.id

\* C5, amended: the initial buffer holds the most recent BufferMaximum
\* events it was given.  Once the first call has returned (no observer having
\* changed the registry meanwhile) each observer attached by it has been
\* given exactly those events, oldest first; the events given to the buffer
\* before them were dropped and are delivered to no one.
C5_MostRecentEventsReplayed ==
    (hist.firstDone /\ ~hist.meddled) =>
        \A u \in Attached :
            /\ Ids(Replayed(u)) = Window
            /\ \A i \in 1..Len(received[u]) :
                   received[u][i].id \in Range(hist.offeredAtBegin)
                       => received[u][i].id \in Range(Window)

\* More events than the buffer holds were published before the first call;
\* the call replayed the most recent ones.
C5_Witness ==
    /\ hist.firstDone /\ ~hist.meddled
    /\ Len(hist.offeredAtBegin) > BufferMaximum
    /\ \E u \in Attached : Ids(Replayed(u)) = Window

\* C6: the buffer is replayed by the first beginLoggingTo call only.  With
\* every call made after the previous one returned: no later call replays
\* anything, no observer is given a buffered event twice, and an observer
\* attached by a later call is given none of the buffered events.
C6_ReplayedOnceByFirstCall ==
    ~hist.overlap =>
        \A u \in Users :
            /\ \A i \in 1..Len(received[u]) : received[u][i].via <= 1
            /\ \A i, j \in 1..Len(Replayed(u)) :
                   Replayed(u)[i].id = Replayed(u)[j].id => i = j
            /\ u \in hist.laterArgs \ Attached =>
                   \A i \in 1..Len(received[u]) :
                       received[u][i].id \notin Range(hist.offeredAtBegin)

\* A second call has returned after a first one that replayed; an observer
\* attached by the second call only has been given events.
C6_Witness ==
    /\ Idle
    /\ ~hist.overlap
    /\ hist.begins >= 2
    /\ \E u \in Attached : Replayed(u) # <<>>
    /\ \E u \in hist.laterArgs \ Attached : received[u] # <<>>

\* The pass that delivers the warning of the beginLoggingTo activation at
\* stack position i, while that pass runs.
WarningPass(i) == stack[i + 1]

LateCalls ==
    { i \in 1..Len(stack) :
        /\ stack[i].k = "begin"
        /\ stack[i].phase = "warn"
        /\ i < Len(stack) }

\* C7: a beginLoggingTo call made after the first one returned attaches its
\* observers and emits exactly one warning, at level warn, which goes to the
\* observers attached by that call and to those attached before; the first
\* call emits none.
C7_LaterCallWarnsOnce ==
    /\ \A c \in 1..Len(hist.warns) :
          /\ c = 1 => hist.warns[c] = 0
          /\ hist.late[c] => hist.warns[c] = 1
    /\ \A i \in LateCalls :
          LET w == WarningPass(i)
          IN /\ w.k = "pass" /\ w.main
             /\ w.ev.kind = "warn" /\ w.ev.level = "warn"
             /\ Range(stack[i].args) \subseteq Range(w.start)
             /\ Range(w.start) \subseteq Users
             /\ (w.phase = "report" /\ ~w.dirty) =>
                    \A o \in Range(w.start) :
                        \E d \in 1..Len(received[o]) :
                            received[o][d].id = w.ev.id

\* The warning of a call made after the first returned has been delivered
\* to an observer attached by the first call and to one attached by this
\* call.
C7_Witness ==
    \E i \in LateCalls :
        LET w == WarningPass(i)
        IN /\ hist.late[stack[i].call]
           /\ w.phase = "report" /\ ~w.dirty
           /\ Range(stack[i].args) \ Attached # {}
           /\ Attached \subseteq Range(w.seen)
           /\ Range(stack[i].args) \subseteq Range(w.seen)

Buffering == tempObs = Temp /\ Temp \in Range(observers)
Begun == tempObs = "None" /\ Temp \notin Range(observers)

\* C8: the LogBeginner is in exactly one of two states: buffering (the
\* temporary observer attached and referenced) or begun (detached and
\* forgotten).  It is buffering until beginLoggingTo is first called, begun
\* when that call has returned, and never buffering again.
C8_BufferingThenBegunForGood ==
    /\ ~(Buffering /\ Begun)
    /\ hist.begins = 0 => Buffering
    /\ Idle => (Buffering \/ Begun)
    /\ (Idle /\ hist.begins > 0) => Begun
    /\ hist.firstDone => Begun

\* After the first call, a second call and a publication have happened.
C8_Witness ==
    /\ Idle
    /\ Begun
    /\ hist.begins >= 2
    /\ \E p \in hist.pubs : ~p.pre /\ p.level # "warn"

\* C9: an event is written to the error stream exactly when it has level
\* critical and is published before the first beginLoggingTo call.
C9_WrittenIffCriticalBeforeBegin ==
    Idle =>
        \A p \in hist.pubs :
            (p.id \in Range(errStream)) <=> (p.level = "critical" /\ p.pre)

\* C30: the step from buffering to begun is atomic for overlapping calls.
\* Every beginLoggingTo call after the first one started, also one made by
\* an observer while the first call is replaying to it, takes the
\* already-begun branch: it warns and replays nothing, so no observer is
\* given a buffered event by a later call or twice.
C30_OverlappingCallAlreadyBegun ==
    /\ \A c \in 2..Len(hist.warns) : hist.warns[c] = 1
    /\ \A u \in Users :
          /\ \A i \in 1..Len(received[u]) : received[u][i].via <= 1
          /\ \A i, j \in 1..Len(Replayed(u)) :
                 Replayed(u)[i].id = Replayed(u)[j].id => i = j

\* C34: every beginLoggingTo call leaves its own call site in
\* _previousBegin when it returns, and the warning of a repeated call names
\* that call's site as the current one and the site of the call before it
\* as the previous one: the third call names the second.  Stated for calls
\* that do not overlap, which are numbered in the order they are made and
\* whose call site is their number.
C34_WarningNamesPrecedingCall ==
    ~hist.overlap =>
        /\ \A i \in 1..Len(stack) :
              (stack[i].k = "begin" /\ stack[i].phase = "warn") =>
                  /\ stack[i].site = stack[i].call
                  /\ stack[i].prev = stack[i].call - 1
        /\ (Idle /\ hist.begins > 0) => prevBegin = hist.begins

\* A third call warns, naming the second call as the previous one.
C34_Witness ==
    /\ ~hist.overlap
    /\ \E i \in 1..Len(stack) :
          /\ stack[i].k = "begin" /\ stack[i].phase = "warn"
          /\ stack[i].call = 3
          /\ stack[i].prev = 2

\* C36: no observer is given the same pre-begin event twice: an observer
\* that was registered on the publisher before the first beginLoggingTo call
\* and was given an event when it was published is not given that event
\* again by the replay.  Stated for calls that do not overlap.
C36_NoPreBeginEventTwice ==
    ~hist.overlap =>
        \A u \in Users :
            \A i, j \in 1..Len(received[u]) :
                ~ /\ received[u][i].id = received[u][j].id
                  /\ received[u][i].via = 0
                  /\ received[u][j].via = 1

\* A beginLoggingTo call has taken the first branch: its replay has started.
ReplayStarted == \E c \in 1..Len(hist.warns) : hist.warns[c] = 0

BufferKeptAsItIs == ReplayStarted => buffer' = buffer

C39_RefusedCallKeepsBuffering ==
    /\ hist.unfit = hist.refused
    /\ hist.begins = 0 =>
          /\ Buffering
          /\ prevBegin = 0
          /\ \A u \in Users : \A i \in 1..Len(received[u]) :
                received[u][i].via = 0
    /\ hist.refusedFirst =>
          /\ hist.warns # <<>> => hist.warns[1] = 0
          /\ hist.firstDone =>
                \A u \in Attached : Ids(Replayed(u)) = Window

\* A call was refused while the beginner was buffering; the next call, given
\* callables, replayed the two buffered events.
C39_Witness ==
    /\ hist.refusedFirst
    /\ hist.firstDone
    /\ Len(Window) = 2
    /\ hist.warns = <<0>>
    /\ \E u \in Attached : Ids(Replayed(u)) = Window

-----------------------------------------------------------------------------
\* Properties of the filter (SpecFilter).

Least(S) == CHOOSE x \in S : \A y \in S : x <= y
Greatest(S) == CHOOSE x \in S : \A y \in S : x >= y

\* The position of the first result of a chain that is not maybe; 0 if all
\* are maybe.
FirstOpinion(chain) ==
    LET S == { i \in 1..Len(chain) : chain[i] # "maybe" }
    IN IF S = {} THEN 0 ELSE Least(S)

\* C13: FilteringLogObserver asks its predicates in the order given.  The
\* first one that answers yes or no decides (yes: the wrapped observer is
\* called, no: it is not) and no later predicate is asked; maybe passes the
\* question on; when all answer maybe, or there is no predicate, the event
\* is forwarded.
C13_FirstOpinionDecides ==
    out.op = "filter" =>
        LET k == FirstOpinion(out.chain)
        IN /\ k = 0 =>
                 out.forwarded /\ ~out.raised /\ out.asked = Len(out.chain)
           /\ (k > 0 /\ out.chain[k] = "yes") =>
                 out.forwarded /\ ~out.raised /\ out.asked = k
           /\ (k > 0 /\ out.chain[k] = "no") =>
                 ~out.forwarded /\ ~out.raised /\ out.asked = k

\* A chain whose second predicate says yes before one that would say no.
C13_Witness ==
    /\ out.op = "filter"
    /\ out.chain = <<"maybe", "yes", "no">>
    /\ out.forwarded
    /\ out.asked = 2

\* C14: a predicate result that is none of yes, no and maybe makes
\* FilteringLogObserver raise TypeError: the event is not forwarded and the
\* remaining predicates are not asked.
C14_UnknownResultRaises ==
    out.op = "filter" =>
        LET k == FirstOpinion(out.chain)
        IN (k > 0 /\ out.chain[k] \notin {"yes", "no"}) =>
               out.raised /\ ~out.forwarded /\ out.asked = k

\* A chain whose second predicate gives an unknown result before one that
\* would say yes.
C14_Witness ==
    /\ out.op = "filter"
    /\ out.chain = <<"maybe", "bogus", "yes">>
    /\ out.raised
    /\ out.asked = 2

\* debug < info < warn < error < critical
LevelOrder == <<"debug", "info", "warn", "error", "critical">>
Rank(level) == CHOOSE i \in 1..Len(LevelOrder) : LevelOrder[i] = level

\* The level configured for the longest prefix of ns (ns itself included)
\* that has one, else the default.
Resolved(map, ns) ==
    LET S == { i \in 1..Len(ns) : SubSeq(ns, 1, i) \in DOMAIN map }
    IN IF S = {} THEN map[Unnamed] ELSE map[SubSeq(ns, 1, Greatest(S))]

\* C15: LogLevelFilterPredicate answers no exactly when the event has no
\* log_level, or no log_namespace, or a level strictly below the level
\* resolved for its namespace; otherwise it answers maybe; never yes.
C15_LevelFilterAnswer ==
    out.op = "predicate" =>
        /\ out.result \in {"no", "maybe"}
        /\ out.result = "no" <=>
              \/ out.level = "none"
              \/ ~out.named
              \/ Rank(out.level) < Rank(Resolved(levels, out.ns))

\* An event at exactly the level configured for a prefix of its namespace
\* gets maybe.
C15_Witness ==
    /\ out.op = "predicate"
    /\ out.named
    /\ out.ns = <<"a", "b", "c">>
    /\ <<"a">> \in DOMAIN levels
    /\ <<"a", "b">> \notin DOMAIN levels
    /\ out.level = levels[<<"a">>]
    /\ out.level # levels[Unnamed]
    /\ out.result = "maybe"

\* C16: logLevelForNamespace(ns) gives the level configured for ns, else
\* that of its longest configured prefix, else the current default, which
\* is also the answer for a None or empty namespace;
\* setLogLevelForNamespace stores the level for ns, and with a None or empty
\* namespace replaces the default, the answer for every namespace without a
\* configured prefix.
C16_LongestPrefixThenDefault ==
    /\ out.op = "resolve" => out.result = Resolved(levels, out.ns)
    /\ (out.op = "set" /\ ~out.raised) =>
          /\ levels[out.ns] = out.level
          /\ out.ns = Unnamed =>
                \A ns \in Namespaces :
                    (\A i \in 1..Len(ns) :
                        SubSeq(ns, 1, i) \notin DOMAIN levels)
                    => LogLevelForNamespace(levels, ns) = out.level

\* With different levels configured for a and a.b, a.b.c resolves to the
\* level of a.b.
C16_Witness ==
    /\ out.op = "resolve"
    /\ out.ns = <<"a", "b", "c">>
    /\ <<"a">> \in DOMAIN levels
    /\ <<"a", "b">> \in DOMAIN levels
    /\ levels[<<"a">>] # levels[<<"a", "b">>]
    /\ out.result = levels[<<"a", "b">>]

\* A call of setLogLevelForNamespace raises exactly when the level is not a
\* LogLevel, and then changes nothing.
RejectsAndKeeps ==
    out'.op = "set" =>
        /\ out'.raised <=> out'.level \notin Levels
        /\ out'.raised =>
              /\ levels' = levels
              /\ \A ns \in Namespaces :
                    LogLevelForNamespace(levels', ns)
                        = LogLevelForNamespace(levels, ns)

\* C17: setLogLevelForNamespace with a level that is not a LogLevel constant
\* raises InvalidLogLevelError and leaves the map, the default included, as
\* it was, so that every namespace resolves as before.
C17_InvalidLevelRejected == [][RejectsAndKeeps]_vars

\* An invalid level was rejected with a changed default and a configured
\* namespace in the map.
C17_Witness ==
    /\ out.op = "set"
    /\ out.raised
    /\ levels[Unnamed] # DefaultLogLevel
    /\ <<"a">> \in DOMAIN levels

-----------------------------------------------------------------------------
\* Properties of formatting and flattening (SpecFormat).

\* A field of the format cannot be rendered: a callable that raises, or a
\* flattened event without the value of a field.
Unrenderable ==
    IF event.flat.has
    THEN \E i \in 1..Len(event.items) :
            FlatKey(event.items[i].name, event.items[i].spec,
                    event.items[i].conv) \notin DOMAIN event.flat.fields
    ELSE \/ event.kind = "other"
         \/ /\ event.kind \in {"text", "bytes"}
            /\ event.thunk = "raise"
            /\ \E i \in 1..Len(event.items) :
                  CallMarked(event.items[i].name)

\* C18: formatEvent never raises.  It returns the rendered text when
\* rendering succeeds, a text with 'Unable to format event' when rendering
\* fails, and a text with 'MESSAGE LOST' when building that diagnostic fails
\* too.
C18_FormatEventNeverRaises ==
    out.op = "format" =>
        /\ ~out.raised
        /\ out.marker = IF ~Unrenderable THEN "text"
                        ELSE IF event.reprOk THEN "unable"
                        ELSE "lost"

\* An event whose callable raises and whose repr raises was formatted.
C18_Witness ==
    /\ out.op = "format"
    /\ event.thunk = "raise"
    /\ ~event.reprOk
    /\ out.marker = "lost"

\* C19: for an event with a format and the fields it names, formatEvent
\* gives the same text after flattenEvent as before, with literal text
\* before, between and after the fields and with conversions and format
\* specs.
C19_FlattenKeepsFormattedText ==
    (/\ out.op = "flatten"
     /\ event.kind \in {"text", "bytes"}
     /\ event.thunk = "ok") =>
        /\ ~out.raised
        /\ FormatEvent(event).marker = out.before.marker
        /\ FormatEvent(event).text = out.before.text

\* The keys of the call-marked references of the event's format.
CallKeys ==
    { FlatKey(event.items[i].name, event.items[i].spec, event.items[i].conv) :
        i \in { j \in 1..Len(event.items) : CallMarked(event.items[j].name) } }

\* C20: one flattenEvent call invokes the callable of a call-marked field
\* once for each distinct (name, spec, conversion) that refers to it,
\* however often the reference is repeated; a callable that raises ends the
\* flattening at its first invocation.
C20_CallableOncePerReference ==
    (out.op = "flatten" /\ event.kind \in {"text", "bytes"}) =>
        calls = IF event.thunk # "raise" THEN Cardinality(CallKeys)
                ELSE IF CallKeys = {} THEN 0 ELSE 1

\* A format that refers twice to the callable in the same way was flattened
\* with one invocation.
C20_Witness ==
    /\ out.op = "flatten"
    /\ ~out.raised
    /\ Len(event.items) = 2
    /\ CallMarked(event.items[1].name)
    /\ CallMarked(event.items[2].name)
    /\ Cardinality(CallKeys) = 1
    /\ calls = 1

\* C21: flattenEvent on an event that is already flattened raises nothing
\* and leaves log_flattened with the keys and values it had, so the text
\* formatEvent gives is the same after the second call as after the first.
C21_FlattenIsIdempotent ==
    (out.op = "flatten" /\ out.was.has) =>
        /\ ~out.raised
        /\ event.flat = out.was
        /\ FormatEvent(event).text = out.before.text

\* C26: saving an event that has no log_format, the empty event included,
\* and loading it again raises nothing and gives the mapping that went in,
\* as far as JSON represents it: the flattening done first neither raises
\* nor adds anything.
C26_SaveLoadWithoutFormat ==
    (out.op = "json" /\ out.given.kind = "none") =>
        /\ ~out.raised
        /\ out.loaded = EventFromJSON(Dumps(out.given))

-----------------------------------------------------------------------------
\* Further properties of the publisher (SpecFanout).

\* C28: failures are reported after the delivery pass.  Whenever a pass of
\* an error publisher is under way, the pass that captured the failure has
\* left its loop, has invoked every observer registered when it started
\* (the registry not having changed meanwhile), and the report being
\* delivered is for the next failure in the order the failures occurred.
C28_ReportsAfterFullPass ==
    \A i \in 1..(Len(stack) - 1) :
        LET f == stack[i]
            g == stack[i + 1]
        IN (g.k = "pass" /\ ~g.main) =>
              /\ f.k = "pass"
              /\ f.phase = "report"
              /\ ~f.dirty => Range(f.start) \subseteq Range(f.seen)
              /\ f.ridx \in 1..Len(f.broken)
              /\ g.ev.kind = "report"
              /\ g.ev.about = f.broken[f.ridx]
              /\ IsSubseq(f.broken, f.seen)
              /\ \A o \in Range(f.seen) \cap Users :
                    \E k \in 1..Len(received[o]) :
                        /\ received[o][k].id = f.ev.id
                        /\ \A j \in 1..(k - 1) : received[o][j].id # g.ev.id

\* Two observers raised in one pass over three; the report of the second
\* failure is being delivered and has reached an observer.
C28_Witness ==
    \E i \in 1..(Len(stack) - 1) :
        /\ stack[i].k = "pass" /\ stack[i].main
        /\ Len(stack[i].start) = 3
        /\ Len(stack[i].broken) = 2
        /\ stack[i].ridx = 2
        /\ stack[i + 1].k = "pass" /\ ~stack[i + 1].main
        /\ stack[i + 1].idx >= 1

\* How often observer o was given the event id.
TimesGiven(o, id) ==
    Cardinality({ k \in 1..Len(received[o]) : received[o][k].id = id })

\* A pass that is not the innermost call stands still.
OuterPassesWait ==
    \A i \in 1..(Len(stack) - 1) :
        i < Len(stack') =>
            /\ stack'[i].idx = stack[i].idx
            /\ stack'[i].seen = stack[i].seen
            /\ stack'[i].phase = stack[i].phase

\* Passes and deliveries when observers publish from inside a pass.
EachObserverOncePerEvent ==
    /\ \A f \in Passes :
          (f.main /\ ~f.dirty) =>
              /\ IsPrefix(f.seen, f.start)
              /\ f.phase = "report" => f.seen = f.start
    /\ \A i \in 1..(Len(stack) - 1) :
          (stack[i + 1].main /\ stack[i].main) =>
              /\ stack[i].phase = "deliver"
              /\ beh[stack[i].cur].kind = "publish"
              /\ stack[i + 1].ev.id # stack[i].ev.id
    /\ ~hist.touched =>
          \A p \in hist.pubs : \A o \in Range(observers) :
              /\ TimesGiven(o, p.id) <= 1
              /\ Idle => TimesGiven(o, p.id) = 1

\* C29: an observer may publish to the publisher that is delivering to it.
\* The nested event goes to every registered observer in a pass that ends
\* before the outer pass goes on, the outer pass then reaches each remaining
\* observer, and (the registry being left alone) each observer is given each
\* of the two events exactly once.
C29_ReentrantPublish ==
    []EachObserverOncePerEvent /\ [][OuterPassesWait]_vars

\* A call has returned in which an observer published a second event from
\* inside the pass of the first, with three observers registered.
C29_Witness ==
    /\ Idle
    /\ ~hist.touched
    /\ Len(observers) = 3
    /\ \E o \in Range(observers) : beh[o].kind = "publish" /\ o \in fired
    /\ \E p, q \in hist.pubs :
          /\ p.id # q.id
          /\ \A o \in Range(observers) :
                TimesGiven(o, p.id) = 1 /\ TimesGiven(o, q.id) = 1

\* The event with other live fields: another callable, called n times
\* before, and another repr.
WithLiveFields(ev, thunk, reprOk, n) ==
    [ev EXCEPT !.thunk = thunk, !.reprOk = reprOk, !.n = n]

\* C31: formatEvent on a flattened event uses log_format and log_flattened
\* only.  It calls no callable field, and the text is the same for every
\* event with the same log_format and log_flattened, whatever its callable
\* returns or raises and however its fields print.
C31_FlatFormatUsesFlattenedOnly ==
    /\ (out.op = "format" /\ event.flat.has) => calls = 0
    /\ event.flat.has =>
          \A thunk \in {"ok", "raise", "count"}, reprOk \in BOOLEAN,
             n \in 0..(MaxCalls + MaxItems) :
                LET other == FormatEvent(WithLiveFields(event, thunk, reprOk, n))
                IN /\ other.text = FormatEvent(event).text
                   /\ other.marker = FormatEvent(event).marker
                   /\ other.calls = 0

\* A flattened event whose callable counts its calls, and would now return
\* another value than the one stored, was formatted.
C31_Witness ==
    /\ out.op = "format"
    /\ out.marker = "text"
    /\ event.flat.has
    /\ event.thunk = "count"
    /\ event.n >= 1
    /\ \E i \in 1..Len(event.items) : CallMarked(event.items[i].name)

\* C32: the callable of a call-marked field is not called by the delivery of
\* the event.  An event that the level filter drops leaves the callable
\* uncalled; the callable is called only when the event reaches the observer
\* that formats it.
C32_CallMarkedFieldsAreLazy ==
    out.op = "deliver" =>
        /\ out.forwarded = (out.level = "error")
        /\ ~out.forwarded => (calls = 0 /\ event = out.given)
        /\ calls > 0 => out.forwarded

\* An event with a call-marked field was dropped for its level and one like
\* it would have had its callable called by the formatting observer.
C32_Witness ==
    /\ out.op = "deliver"
    /\ out.level = "debug"
    /\ ~out.forwarded
    /\ event.kind = "text"
    /\ event.thunk = "count"
    /\ ~event.flat.has
    /\ FormatEvent(event).calls = 2
    /\ calls = 0

\* C33: after clearLogLevels() the map holds the default entry only, with
\* the level the predicate was constructed with, so every namespace and the
\* empty namespace resolve to that level, also when the default entry had
\* been replaced before.
C33_ClearRestoresConstructedDefault ==
    out.op = "clear" =>
        /\ levels = (Unnamed :> DefaultLogLevel)
        /\ \A ns \in Namespaces :
              LogLevelForNamespace(levels, ns) = DefaultLogLevel

\* A map whose default entry had been replaced and that held a level for a
\* namespace was cleared.
C33_Witness ==
    /\ out.op = "clear"
    /\ out.was[Unnamed] # DefaultLogLevel
    /\ Cardinality(DOMAIN out.was) >= 2

-----------------------------------------------------------------------------
\* Properties of the LoggingFile (SpecIO).

\* The emitted messages, each followed by a newline.
RECURSIVE Terminated(_)
Terminated(messages) ==
    IF messages = <<>> THEN <<>>
    ELSE Head(messages).message \o <<NL>> \o Terminated(Tail(messages))

Newlines(text) == Cardinality({ i \in 1..Len(text) : text[i] = NL })

-----------------------------------------------------------------------------
\* Properties of the publisher with raising observers (SpecRaising).

\* Every error publisher in use holds fewer observers than the publisher
\* that built it.
ErrorPublishersShrink ==
    \A i \in 1..Len(stack) :
        (stack[i].k = "pass" /\ ~stack[i].main) =>
            Len(stack[i].obs) < Len(stack[i].from)

\* C37: publisher(event) terminates for a finite registry of observers that
\* do not publish, also when every observer raises on every event it is
\* given, error reports included: each error publisher holds strictly fewer
\* observers than the publisher that built it, so the chain of reports
\* about reports ends and every call that was started returns.
C37_ErrorReportingTerminates ==
    /\ []ErrorPublishersShrink
    /\ (stack # <<>>) ~> (stack = <<>>)

\* Three observers that all raise: the report about the failure of the last
\* observer left goes to an error publisher without observers, three levels
\* below the call.
C37_Witness ==
    /\ Len(observers) = 3
    /\ \A u \in Users : beh[u].kind = "raise"
    /\ Len(stack) = 4
    /\ ~Top.main
    /\ Top.obs = <<>>
    /\ \A i \in 2..4 : Len(stack[i].from) = 5 - i

\* C40: flattenEvent changes only the log_flattened key of the event:
\* log_format and every other key and value are as they were (a callable
\* field is the same object, however often it was called), and when
\* flattenEvent raises the event is left as it was given, so that an event
\* that had no log_flattened key has none afterwards.
C40_FlattenChangesLogFlattenedOnly ==
    out.op = "flatten" =>
        /\ [event EXCEPT !.flat = out.given.flat, !.n = out.given.n]
              = out.given
        /\ out.raised => event.flat = out.given.flat
        /\ (out.raised /\ ~out.given.flat.has) => ~event.flat.has

\* flattenEvent resolved the first field of the format and raised at a later
\* one; the event has no log_flattened key.
C40_Witness ==
    /\ out.op = "flatten"
    /\ out.raised
    /\ Len(event.items) >= 2
    /\ event.items[1].name = "x"
    /\ ~event.flat.has
    /\ event = out.given

-----------------------------------------------------------------------------
\* Properties of SpecRing.

\* What the buffer must hold: the events pushed since the last clear(), the
\* newest maxlen of them when there is a maxlen.
Retained ==
    IF ring.size = NoMaxlen \/ Len(ring.pushed) <= ring.size
    THEN ring.pushed
    ELSE SubSeq(ring.pushed, Len(ring.pushed) - ring.size + 1,
                Len(ring.pushed))

\* C22: a RingBufferLogObserver of capacity N holds exactly the last
\* min(N, k) of the k events pushed since the most recent clear(), oldest
\* first, and its length and iteration show that; it never holds more than
\* N, and without a capacity it holds all k.
C22_RingHoldsLastN ==
    /\ ring.buf = Retained
    /\ ring.size # NoMaxlen => Len(ring.buf) <= ring.size
    /\ ring.size = NoMaxlen => Len(ring.buf) = Len(ring.pushed)
    /\ out.op = "read" => out.listed = Retained /\ out.len = Len(Retained)

\* A full buffer was pushed to, cleared and pushed to again past its
\* capacity, and then read.
C22_Witness ==
    /\ out.op = "read"
    /\ ring.size = 2
    /\ ring.count = 5
    /\ ring.pushed = <<3, 4, 5>>
    /\ out.listed = <<4, 5>>

\* C23: replayTo gives the observer each buffered event once, oldest first,
\* and leaves the buffer as it was.
C23_ReplayKeepsBuffer ==
    out.op = "replay" =>
        /\ out.got = out.was
        /\ ring.buf = out.was
        /\ ring.buf = Retained

\* A buffer that has dropped its oldest event was replayed.
C23_Witness ==
    /\ out.op = "replay"
    /\ Len(out.got) = 2
    /\ Len(ring.pushed) = 3
    /\ out.got = SubSeq(ring.pushed, 2, 3)

-----------------------------------------------------------------------------
\* Properties of SpecRegistry.

\* C24: addObserver with an argument that is not callable raises TypeError
\* to its caller and leaves the registry as it was; a callable argument
\* raises nothing.
C24_NonCallableRejected ==
    out.op = "add" =>
        /\ out.raised = ~Callable(out.arg)
        /\ ~Callable(out.arg) => observers = out.was
        /\ NotCallable \notin Range(observers)

\* A non-callable was offered to a publisher that has observers.
C24_Witness ==
    /\ out.op = "add"
    /\ out.arg = NotCallable
    /\ out.raised
    /\ Len(observers) >= 2

NoDuplicates(list) ==
    \A i, j \in 1..Len(list) : list[i] = list[j] => i = j

\* C25: the registry of a publisher never holds an observer twice, however
\* it was constructed and whatever was added and removed, so a pass invokes
\* no observer twice; adding a registered observer and removing an
\* unregistered one change nothing.
C25_RegistryIsOrderedSet ==
    /\ NoDuplicates(observers)
    /\ out.op = "pass" => NoDuplicates(out.invoked)
    /\ (out.op = "add" /\ out.arg \in Range(out.was)) => observers = out.was
    /\ (out.op = "remove" /\ out.arg \notin Range(out.was)) =>
            observers = out.was

-----------------------------------------------------------------------------
\* Properties of SpecTrace.

\* The forwarding steps of a delivery to node, in delivery order: each stage
\* to each observer it forwards to, followed by that observer's own steps.
RECURSIVE Steps(_)
RECURSIVE StepsOf(_, _)
StepsOf(stage, kids) ==
    IF kids = <<>> THEN <<>>
    ELSE <<<<stage, Head(kids).id>>>> \o Steps(Head(kids))
            \o StepsOf(stage, Tail(kids))
Steps(node) ==
    IF node.t = "obs" THEN <<>>
    ELSE IF node.t = "filter" /\ node.verdict # "forward" THEN <<>>
    ELSE StepsOf(node.id, node.kids)

AllSteps == Steps(Publisher("P", observers))

\* C27: with log_trace, each publisher and each forwarding filter appends
\* (itself, observer) just before it invokes the observer, so every observer
\* finds the steps taken so far, ending with the step to itself, and a
\* filter that does not forward adds nothing; without log_trace nothing is
\* recorded.
C27_TraceBeforeEachForward ==
    out.op = "publish" =>
        IF event.traced
        THEN /\ event.trace = AllSteps
             /\ \A k \in 2..Len(out.seen) :
                   LET s == out.seen[k]
                   IN /\ Len(s.trace) >= 1
                      /\ s.trace = SubSeq(AllSteps, 1, Len(s.trace))
                      /\ s.trace[Len(s.trace)] = <<s.from, s.id>>
                      /\ Len(s.trace) > Len(out.seen[k - 1].trace)
        ELSE /\ event.trace = <<>>
             /\ \A k \in 1..Len(out.seen) : out.seen[k].trace = <<>>

\* A traced event went through a filter that dropped it and through a
\* nested publisher behind a filter that forwarded it.
C27_Witness ==
    /\ out.op = "publish"
    /\ event.traced
    /\ \E i \in 1..Len(observers) :
          observers[i].t = "filter" /\ observers[i].verdict = "drop"
    /\ <<"G", "o4">> \in Range(event.trace)
    /\ <<"Q", "o5">> \in Range(event.trace)

====
